---- MODULE Spec2Model ----
(***************************************************************************)
(* A model of nip_core: the NIPIndex (refs, objects, prev_idx_hash), the   *)
(* push walk and the fetch walk of src/index.rs, the NIPObject             *)
(* constructors of src/object.rs, a local git object database per          *)
(* repository and the IPFS content store.                                  *)
(*                                                                         *)
(* Git hashes are the numbers 1..NumHashes.  An Oid and its hexadecimal    *)
(* string are the same value here.  An IPFS link is the pair               *)
(* <<"/ipfs/", content>>: the content store is content addressed, and the  *)
(* address of a content is modelled as an injective function of it.        *)
(***************************************************************************)
EXTENDS Integers, Sequences, FiniteSets, TLC

VARIABLES
    git,            \* the git objects that exist: hash -> object
    refs,           \* NIPIndex.refs: ref name -> git hash
    objects,        \* NIPIndex.objects: git hash -> IPFS link or marker
    prev_idx_hash,  \* NIPIndex.prev_idx_hash
    odb,            \* per repository: the hashes in its object database
    localrefs,      \* per repository: ref name -> git hash
    ipfs,           \* the content store: [raw: raw git data, obj: encoded NIPObjects]
    nfail,          \* network failures so far
    last            \* the last operation: its arguments and its result

vars == <<git, refs, objects, prev_idx_hash, odb, localrefs, ipfs, nfail, last>>

(***************************************************************************)
(* Bounds and program constants                                            *)
(***************************************************************************)
NumHashes == 8
MaxPublishes == 3
MaxInputLen == 10
MaxFailures == 1
MaxExtra == 2

NIP_PROTOCOL_VERSION == 2
\* b"NIPNIP"
NIP_MAGIC == <<78, 73, 80, 78, 73, 80>>
NIP_HEADER_LEN == 8
SUBMODULE_TIP_MARKER == <<"submodule-tip">>

Hashes == 1..NumHashes
NoHash == 0
Repos == {"A", "B"}
\* A ref name is the sequence of its path components; "" is <<>>
Master == <<"refs", "heads", "master">>
Dev == <<"refs", "heads", "dev">>
TagV1 == <<"refs", "tags", "v1">>
RefNames == {Master, Dev, TagV1}
DstRefs == {Master, TagV1}
FailDstRefs == {Master}
None == <<"None">>

(***************************************************************************)
(* Maps (BTreeMap): functions whose domain is the key set                  *)
(***************************************************************************)
EmptyMap == <<>>
Insert(m, k, v) == [x \in (DOMAIN m) \cup {k} |-> IF x = k THEN v ELSE m[x]]
Remove(m, k) == [x \in (DOMAIN m) \ {k} |-> m[x]]
contains_key(m, k) == k \in DOMAIN m

(***************************************************************************)
(* Git objects                                                             *)
(***************************************************************************)
Entry(id, kind) == [id |-> id, kind |-> kind]
Blob(d) == [kind |-> "blob", tree |-> NoHash, parents |-> <<>>,
            target |-> NoHash, entries |-> {}, data |-> d]
Tree(es, d) == [kind |-> "tree", tree |-> NoHash, parents |-> <<>>,
                target |-> NoHash, entries |-> es, data |-> d]
Commit(t, ps, d) == [kind |-> "commit", tree |-> t, parents |-> ps,
                     target |-> NoHash, entries |-> {}, data |-> d]
Tag(t, d) == [kind |-> "tag", tree |-> NoHash, parents |-> <<>>,
              target |-> t, entries |-> {}, data |-> d]

\* The repository the operations run on.  Commit 3 has two children: 8, with
\* the same tree, and 5, whose tree names two submodule tips: 7, a commit of
\* another repository, and 3, its own parent.  6 is an annotated tag of 8.
TheRepo(h) ==
    CASE h = 1 -> Blob(101)
      [] h = 2 -> Tree({Entry(1, "blob")}, 102)
      [] h = 3 -> Commit(2, <<>>, 103)
      [] h = 4 -> Tree({Entry(1, "blob"), Entry(3, "commit"), Entry(7, "commit")}, 104)
      [] h = 5 -> Commit(4, <<3>>, 105)
      [] h = 6 -> Tag(8, 106)
      [] h = 7 -> Commit(2, <<>>, 107)
      [] h = 8 -> Commit(2, <<3>>, 108)
      [] OTHER -> Blob(100 + h)

\* git's hash of (kind, data): odb.write computes it
OdbHash(kind, data) ==
    IF \E h \in Hashes : git[h].kind = kind /\ git[h].data = data
    THEN CHOOSE h \in Hashes : git[h].kind = kind /\ git[h].data = data
    ELSE NoHash

(***************************************************************************)
(* NIPObject (src/object.rs)                                               *)
(***************************************************************************)
Link(content) == <<"/ipfs/", content>>

Metadata(variant, parents, tree, target, entries) ==
    [variant |-> variant, parent_git_hashes |-> parents, tree_git_hash |-> tree,
     target_git_hash |-> target, entry_git_hashes |-> entries]

NIPObject(raw, metadata) == [raw_data_ipfs_hash |-> raw, metadata |-> metadata]

Range(s) == {s[i] : i \in DOMAIN s}

\* upload_odb_obj: the link of the raw data
upload_odb_obj(h) == Link(git[h].data)

from_git_blob(h) ==
    NIPObject(upload_odb_obj(h), Metadata("Blob", {}, NoHash, NoHash, {}))

from_git_commit(h) ==
    NIPObject(upload_odb_obj(h),
              Metadata("Commit", Range(git[h].parents), git[h].tree, NoHash, {}))

from_git_tag(h) ==
    NIPObject(upload_odb_obj(h), Metadata("Tag", {}, NoHash, git[h].target, {}))

\* A construction that leaves the submodule tips out
from_git_tree_filtered(h) ==
    NIPObject(upload_odb_obj(h),
              Metadata("Tree", {}, NoHash, NoHash,
                       {e.id : e \in {x \in git[h].entries : x.kind # "commit"}}))

\* every entry of the tree, submodule tips included
from_git_tree(h) ==
    NIPObject(upload_odb_obj(h),
              Metadata("Tree", {}, NoHash, NoHash, {e.id : e \in git[h].entries}))

from_git(h) ==
    CASE git[h].kind = "commit" -> from_git_commit(h)
      [] git[h].kind = "tree" -> from_git_tree(h)
      [] git[h].kind = "blob" -> from_git_blob(h)
      [] git[h].kind = "tag" -> from_git_tag(h)

(***************************************************************************)
(* The header codec (src/util.rs)                                          *)
(***************************************************************************)
\* u16, and Option<u16>: None or Some(v)
U16 == 0..(2^16 - 1)
Some(v) == <<"Some", v>>
unwrap_or(opt, default) == IF opt = None THEN default ELSE opt[2]

\* write_u16::<BigEndian>
\* The version written low byte first
write_u16_le(v) == <<v % 256, v \div 256>>

\* write_u16::<BigEndian>
write_u16_be(v) == <<v \div 256, v % 256>>

\* read_u16::<BigEndian> of a two-byte slice
read_u16_be(b) == b[1] * 256 + b[2]

\* gen_nip_header: the magic, then version.unwrap_or(NIP_PROTOCOL_VERSION)
gen_nip_header(version) ==
    NIP_MAGIC \o write_u16_be(unwrap_or(version, NIP_PROTOCOL_VERSION))

\* parse_nip_header: <<TRUE, version>>, or <<FALSE, reason>>
\* A parse that reads the version behind any six bytes
parse_any_magic(header) ==
    IF Len(header) < NIP_HEADER_LEN THEN <<FALSE, "short">>
    ELSE <<TRUE, read_u16_be(SubSeq(header, Len(NIP_MAGIC) + 1, NIP_HEADER_LEN))>>

parse_nip_header(header) ==
    IF Len(header) < NIP_HEADER_LEN THEN <<FALSE, "short">>
    ELSE IF SubSeq(header, 1, Len(NIP_MAGIC)) # NIP_MAGIC THEN <<FALSE, "magic">>
    ELSE <<TRUE, read_u16_be(SubSeq(header, Len(NIP_MAGIC) + 1, NIP_HEADER_LEN))>>

\* Stored bytes: the bytes in front of the payload, and the payload that
\* serde_cbor reads from the rest
Bytes(header, payload) == [header |-> header, payload |-> payload]

\* A payload serde_cbor cannot decode
Garbage == [garbage |-> "cbor"]

\* gen_nip_header(None) ++ serde_cbor::to_vec(self)
Encode(obj) == Bytes(gen_nip_header(None), obj)

\* NIPObject::ipfs_add: the link of the encoded object
nip_object_hash(h) == Link(Encode(from_git(h)))

(***************************************************************************)
(* The content store                                                       *)
(***************************************************************************)
\* ipfs.add of raw git data and of encoded NIPObjects
ipfs_add_raw(store, datas) == [store EXCEPT !.raw = @ \cup datas]
ipfs_add_obj(store, encs) == [store EXCEPT !.obj = @ \cup encs]

\* NIPObject::ipfs_get: cat, parse_nip_header, the version check, then decode.
\* The result is <<TRUE, object>> or <<FALSE, reason>>.
ipfs_get(store, link) ==
    IF link = SUBMODULE_TIP_MARKER \/ link[2] \notin store.obj THEN <<FALSE, "cat">>
    ELSE IF ~parse_nip_header(link[2].header)[1]
    THEN <<FALSE, parse_nip_header(link[2].header)[2]>>
    ELSE IF parse_nip_header(link[2].header)[2] # NIP_PROTOCOL_VERSION
    THEN <<FALSE, "version">>
    ELSE IF link[2].payload = Garbage THEN <<FALSE, "decode">>
    ELSE <<TRUE, link[2].payload>>

Min(S) == CHOOSE x \in S : \A y \in S : x <= y

(***************************************************************************)
(* enumerate_for_fetch (src/index.rs)                                      *)
(***************************************************************************)
RECURSIVE enumerate_for_fetch(_, _, _, _, _)
RECURSIVE fetch_each(_, _, _, _, _)

\* repo.odb()?.read_header(oid).is_ok()
present_locally(db, oid) == oid \in db

\* A walk that takes no entry for a submodule tip
never_submodule_tip(nip_obj_ipfs_hash) == FALSE

\* nip_obj_ipfs_hash == SUBMODULE_TIP_MARKER
is_submodule_tip(nip_obj_ipfs_hash) == nip_obj_ipfs_hash = SUBMODULE_TIP_MARKER

\* A walk that never takes an object for counted
never_in_state(for_fetch_state, oid) == FALSE

\* for_fetch_state.contains(&oid)
in_state(for_fetch_state, oid) == oid \in for_fetch_state

\* A walk that passes over an object the index does not record
object_passed_over(st) == st

\* .ok_or_else(|| format_err!("Could not find object {} in the index", oid))?
object_not_found(st) == [st EXCEPT !.err = TRUE]

\* for x in set (a BTreeSet: ascending) { self.enumerate_for_fetch(x, ...)? }
fetch_each(self_objects, store, db, S, st) ==
    IF S = {} \/ st.err THEN st
    ELSE fetch_each(self_objects, store, db, S \ {Min(S)},
                    enumerate_for_fetch(self_objects, store, db, Min(S), st))

enumerate_for_fetch(self_objects, store, db, oid, st) ==
    IF st.err THEN st
    ELSE IF present_locally(db, oid) THEN st
    ELSE IF in_state(st.fetch, oid) THEN st
    ELSE IF ~contains_key(self_objects, oid) THEN object_not_found(st)
    ELSE IF is_submodule_tip(self_objects[oid]) THEN st
    ELSE LET st1 == [st EXCEPT !.fetch = @ \cup {oid}, !.gets = Append(@, oid)]
             got == ipfs_get(store, self_objects[oid])
             md == got[2].metadata
         IN  IF ~got[1] THEN [st1 EXCEPT !.err = TRUE]
             ELSE CASE md.variant = "Commit" ->
                         fetch_each(self_objects, store, db, md.parent_git_hashes,
                             enumerate_for_fetch(self_objects, store, db,
                                                 md.tree_git_hash, st1))
                    [] md.variant = "Tag" ->
                         enumerate_for_fetch(self_objects, store, db,
                                             md.target_git_hash, st1)
                    [] md.variant = "Tree" ->
                         fetch_each(self_objects, store, db, md.entry_git_hashes, st1)
                    [] md.variant = "Blob" -> st1

\* fetch: for_fetch_state; gets: the hashes whose NIPObject the walk downloaded,
\* one item per NIPObject::ipfs_get
FetchStart == [fetch |-> {}, err |-> FALSE, gets |-> <<>>]

(***************************************************************************)
(* enumerate_for_push (src/index.rs)                                       *)
(***************************************************************************)
RECURSIVE enumerate_for_push(_, _, _, _)
RECURSIVE push_parents(_, _, _, _, _)
RECURSIVE push_entries(_, _, _, _)

\* A walk that never takes an object for indexed
never_in_index(self_objects, obj) == FALSE

\* self.objects.contains_key(&obj.id().to_string())
already_in_index(self_objects, obj) == contains_key(self_objects, obj)

\* A walk that visits no parent
push_parents_none(self_objects, db, ps, i, st) == st

\* for parent in commit.parents(): the iterator ends at the first parent the
\* repository cannot load
push_parents(self_objects, db, ps, i, st) ==
    IF i > Len(ps) \/ st.err THEN st
    ELSE IF ps[i] \notin db THEN st
    ELSE push_parents(self_objects, db, ps, i + 1,
                      enumerate_for_push(self_objects, db, ps[i], st))

\* A walk that looks at no entry of a tree
push_entries_none(self_objects, db, es, st) == st

\* for entry in tree.into_iter()
push_entries(self_objects, db, es, st) ==
    IF es = {} \/ st.err THEN st
    ELSE LET entry == CHOOSE e \in es : \A f \in es : e.id <= f.id
             rest == es \ {entry}
         IN  IF entry.kind = "commit"
             THEN push_entries(self_objects, db, rest,
                               [st EXCEPT !.subs = @ \cup {entry.id}])
             ELSE IF entry.id \notin db
             THEN [st EXCEPT !.err = TRUE]
             ELSE push_entries(self_objects, db, rest,
                               enumerate_for_push(self_objects, db, entry.id, st))

enumerate_for_push(self_objects, db, obj, st) ==
    IF st.err THEN st
    ELSE IF already_in_index(self_objects, obj) THEN st
    ELSE IF obj \in st.push THEN st
    ELSE LET st1 == [st EXCEPT !.push = @ \cup {obj}] IN
         CASE git[obj].kind = "commit" ->
                IF git[obj].tree \notin db THEN [st1 EXCEPT !.err = TRUE]
                ELSE push_parents(self_objects, db, git[obj].parents, 1,
                         enumerate_for_push(self_objects, db, git[obj].tree, st1))
           [] git[obj].kind = "tree" ->
                push_entries(self_objects, db, git[obj].entries, st1)
           [] git[obj].kind = "blob" -> st1
           [] git[obj].kind = "tag" ->
                IF git[obj].target \notin db THEN [st1 EXCEPT !.err = TRUE]
                ELSE enumerate_for_push(self_objects, db, git[obj].target, st1)

PushStart == [push |-> {}, subs |-> {}, err |-> FALSE]

(***************************************************************************)
(* push_git_objects (src/index.rs)                                         *)
(***************************************************************************)
RECURSIVE push_git_objects(_, _)
push_git_objects(self_objects, oids) ==
    IF oids = {} THEN self_objects
    ELSE LET oid == CHOOSE o \in oids : TRUE
             next == IF contains_key(self_objects, oid) THEN self_objects
                     ELSE Insert(self_objects, oid, nip_object_hash(oid))
         IN  push_git_objects(next, oids \ {oid})

\* what push_git_objects uploads for the objects it inserts
uploads(self_objects, store, oids) ==
    LET new == {o \in oids : ~contains_key(self_objects, o)} IN
    ipfs_add_obj(ipfs_add_raw(store, {git[o].data : o \in new}),
                 {Encode(from_git(o)) : o \in new})

\* The hashes whose encoded NIPObject push_git_objects uploads
\* (NIPObject::ipfs_add), one item per upload
RECURSIVE upload_log(_, _)
upload_log(self_objects, oids) ==
    IF oids = {} THEN <<>>
    ELSE LET oid == CHOOSE o \in oids : TRUE IN
         IF contains_key(self_objects, oid)
         THEN upload_log(self_objects, oids \ {oid})
         ELSE <<oid>> \o upload_log(Insert(self_objects, oid, nip_object_hash(oid)),
                                    oids \ {oid})

RECURSIVE insert_submodule_tips(_, _)

\* Markers for the tips that have no entry yet
insert_new_submodule_tips(self_objects, subs) ==
    IF subs = {} THEN self_objects
    ELSE LET s == CHOOSE x \in subs : TRUE IN
         insert_submodule_tips(IF contains_key(self_objects, s) THEN self_objects
                               ELSE Insert(self_objects, s, SUBMODULE_TIP_MARKER),
                               subs \ {s})

\* for submod_oid in submodules_for_push { self.objects.insert(.., MARKER) }
insert_submodule_tips(self_objects, subs) ==
    IF subs = {} THEN self_objects
    ELSE LET s == CHOOSE x \in subs : TRUE IN
         insert_submodule_tips(Insert(self_objects, s, SUBMODULE_TIP_MARKER),
                               subs \ {s})

(***************************************************************************)
(* push_ref_from_str (src/index.rs)                                        *)
(***************************************************************************)
\* reference.peel(ObjectType::Commit): the commit a chain of tags ends at
RECURSIVE peel_commit(_, _)
peel_commit(db, h) ==
    IF h \notin db THEN NoHash
    ELSE IF git[h].kind = "commit" THEN h
    ELSE IF git[h].kind = "tag" THEN peel_commit(db, git[h].target)
    ELSE NoHash

\* A resolution that always peels to the commit
resolve_commit(db, lrefs, ref_src) ==
    IF ~contains_key(lrefs, ref_src) THEN NoHash
    ELSE peel_commit(db, lrefs[ref_src])

\* repo.find_reference(ref_src)?.resolve()?, then
\* reference.peel(Tag).unwrap_or(reference.peel(Commit)?)
resolve_obj(db, lrefs, ref_src) ==
    IF ~contains_key(lrefs, ref_src) THEN NoHash
    ELSE IF peel_commit(db, lrefs[ref_src]) = NoHash THEN NoHash
    ELSE IF git[lrefs[ref_src]].kind = "tag" THEN lrefs[ref_src]
    ELSE peel_commit(db, lrefs[ref_src])

NetOk == [kind |-> "ok", done |-> {}, raw |-> NoHash]
NetCheck == [kind |-> "check", done |-> {}, raw |-> NoHash]
NetUpload(done, raw) == [kind |-> "upload", done |-> done, raw |-> raw]

PushResult(res, r, o, s, obj, walk, fits) ==
    [res |-> res, refs |-> r, objects |-> o, ipfs |-> s, obj |-> obj,
     objs |-> walk.push, subs |-> walk.subs, fits |-> fits]

\* A push that checks nothing
staleness_skipped(self_refs, self_objects, store, db, ref_dst, force) ==
    [res |-> "ok", called |-> FALSE]

\* The staleness check: "ok", "err" or "fetch_first"; `called` says whether it
\* asked the content store for anything
staleness_check(self_refs, self_objects, store, db, ref_dst, force) ==
    IF force \/ ~contains_key(self_refs, ref_dst)
    THEN [res |-> "ok", called |-> FALSE]
    ELSE LET missing_objects ==
                 enumerate_for_fetch(self_objects, store, db, self_refs[ref_dst],
                                     FetchStart)
         IN  [res |-> IF missing_objects.err THEN "err"
                       ELSE IF missing_objects.fetch # {} THEN "fetch_first"
                       ELSE "ok",
              called |-> missing_objects.fetch # {}]

\* A push that records the walked objects and the ref but no submodule tip
record_push_no_tips(self_refs, self_objects, ref_dst, obj, walk) ==
    [refs |-> Insert(self_refs, ref_dst, obj),
     objects |-> push_git_objects(self_objects, walk.push)]

\* The ref and the objects table once the walk is done and the uploads succeeded
record_push(self_refs, self_objects, ref_dst, obj, walk) ==
    [refs |-> Insert(self_refs, ref_dst, obj),
     objects |-> insert_submodule_tips(push_git_objects(self_objects, walk.push),
                                       walk.subs)]

\* A push that writes the ref before the uploads
ref_written_first(self_refs, ref_dst, obj) == Insert(self_refs, ref_dst, obj)

\* self.push_git_objects(..)? returns before self.refs.insert(..) is reached
refs_of_failed_push(self_refs, ref_dst, obj) == self_refs

\* A check that comes after the ref was written
stale_ref_overwritten(self_refs, self_objects, store, ref_dst, obj, res, fits) ==
    PushResult(res, Insert(self_refs, ref_dst, obj), self_objects, store, obj,
               PushStart, fits)

\* return Err(NIPIndexError::FetchFirst.into()), and the `?` on the walk of
\* the check: both leave before anything of self is written
stale_push(self_refs, self_objects, store, ref_dst, obj, res, fits) ==
    PushResult(res, self_refs, self_objects, store, obj, PushStart, fits)

\* A deletion that empties refs
delete_all_refs(self_refs, ref_dst) == EmptyMap

\* if ref_src == "" { self.refs.remove(ref_dst) ... return Ok(()) }; a ref
\* name is the sequence of its path components and "" has none
delete_ref(self_refs, ref_dst) == Remove(self_refs, ref_dst)

\* net: what the network does during the call.  "check": a request of the
\* staleness check fails.  "upload": the uploads of net.done succeed and the
\* next upload fails, after the raw data of net.raw went up (NoHash: before).
push_ref_from_str(self_refs, self_objects, store, db, lrefs, ref_src, ref_dst, force, net) ==
    LET obj == resolve_obj(db, lrefs, ref_src)
        check == staleness_check(self_refs, self_objects, store, db, ref_dst, force)
        walk == enumerate_for_push(self_objects, db, obj, PushStart)
        same(res, fits) ==
            PushResult(res, self_refs, self_objects, store, obj, PushStart, fits)
    IN  IF ref_src = <<>>
        THEN PushResult("Ok", delete_ref(self_refs, ref_dst), self_objects, store,
                        NoHash, PushStart, net.kind = "ok")
        ELSE IF obj = NoHash THEN same("Err", net.kind = "ok")
        ELSE IF net.kind = "check"
        THEN stale_push(self_refs, self_objects, store, ref_dst, obj, "Err",
                        check.called)
        ELSE IF check.res = "err"
        THEN stale_push(self_refs, self_objects, store, ref_dst, obj, "Err",
                        net.kind = "ok")
        ELSE IF check.res = "fetch_first"
        THEN stale_push(self_refs, self_objects, store, ref_dst, obj, "FetchFirst",
                        net.kind = "ok")
        ELSE IF walk.err THEN same("Err", net.kind = "ok")
        ELSE IF net.kind = "upload"
        THEN PushResult("Err", refs_of_failed_push(self_refs, ref_dst, obj),
                        push_git_objects(self_objects, net.done),
                        ipfs_add_raw(uploads(self_objects, store, net.done),
                                     {git[h].data : h \in {net.raw} \ {NoHash}}),
                        obj, walk,
                        /\ net.done \subseteq walk.push
                        /\ net.done # walk.push
                        /\ net.raw \in (walk.push \ net.done) \cup {NoHash})
        ELSE LET rec == record_push(self_refs, self_objects, ref_dst, obj, walk) IN
             PushResult("Ok", rec.refs, rec.objects,
                        uploads(self_objects, store, walk.push), obj, walk, TRUE)

(***************************************************************************)
(* fetch_nip_objects, fetch_to_ref_from_str (src/index.rs)                 *)
(***************************************************************************)
\* the git kind write_raw_data derives from the metadata variant
obj_type(metadata) ==
    CASE metadata.variant = "Blob" -> "blob"
      [] metadata.variant = "Commit" -> "commit"
      [] metadata.variant = "Tag" -> "tag"
      [] metadata.variant = "Tree" -> "tree"

\* NIPObject::write_raw_data: <<TRUE, the hash odb.write returns>>, or
\* <<FALSE, _>> when the raw data cannot be downloaded
write_raw_data(store, nip_obj) ==
    IF nip_obj.raw_data_ipfs_hash[2] \notin store.raw THEN <<FALSE, NoHash>>
    ELSE <<TRUE, OdbHash(obj_type(nip_obj.metadata), nip_obj.raw_data_ipfs_hash[2])>>

\* A loop that accepts whatever hash the write returns
any_hash_accepted(written_oid, oid) == FALSE

\* written_oid != oid
hash_mismatch(written_oid, oid) == written_oid # oid

\* The loop of fetch_nip_objects over oids (a HashSet: any order; the order
\* shows only when a download or a check fails).  gets: the hashes whose
\* NIPObject was downloaded; cats: those whose raw data was downloaded.
RECURSIVE fetch_nip_objects(_, _, _, _)
fetch_nip_objects(self_objects, store, db, oids) ==
    IF oids = {} THEN [db |-> db, err |-> FALSE, gets |-> <<>>, cats |-> <<>>]
    ELSE LET oid == CHOOSE o \in oids : TRUE
             got == IF contains_key(self_objects, oid)
                    THEN ipfs_get(store, self_objects[oid])
                    ELSE <<FALSE, "index">>
             written == write_raw_data(store, got[2])
             stop(d, g, c) == [db |-> d, err |-> TRUE, gets |-> g, cats |-> c]
             next(d, g, c) ==
                 LET rest == fetch_nip_objects(self_objects, store, d, oids \ {oid})
                 IN  [rest EXCEPT !.gets = g \o @, !.cats = c \o @]
         IN  IF ~contains_key(self_objects, oid) THEN stop(db, <<>>, <<>>)
             ELSE IF ~got[1] THEN stop(db, <<oid>>, <<>>)
             ELSE IF oid \in db THEN next(db, <<oid>>, <<>>)
             ELSE IF ~written[1] THEN stop(db, <<oid>>, <<oid>>)
             ELSE IF hash_mismatch(written[2], oid)
             THEN stop(db \cup ({written[2]} \ {NoHash}), <<oid>>, <<oid>>)
             ELSE next(db \cup {oid}, <<oid>>, <<oid>>)

\* ref_name.starts_with("refs/tags"), on path components
starts_with_refs_tags(ref_name) ==
    Len(ref_name) >= 2 /\ ref_name[1] = "refs" /\ ref_name[2] = "tags"

NetDownload(done) == [kind |-> "download", done |-> done, raw |-> NoHash]
\* the loop takes the objects of done, then net.raw, whose download or check fails
NetOrder(done, oid) == [kind |-> "order", done |-> done, raw |-> oid]

\* The objects of oids fetch_nip_objects stops at
failing_oids(self_objects, store, db, oids) ==
    {o \in oids : fetch_nip_objects(self_objects, store, db, {o}).err}

FetchResult(res, db, lrefs, oids, fits) ==
    [res |-> res, db |-> db, lrefs |-> lrefs, oids |-> oids, fits |-> fits]

\* What fetch_to_ref_from_str does with the tip once the objects are in
\* A match that sets the ref of every commit, whatever the ref's name
set_commit_ref(db, lrefs, git_hash, ref_name) ==
    IF git_hash \notin db THEN [res |-> "Err", lrefs |-> lrefs]
    ELSE IF git[git_hash].kind = "commit"
    THEN [res |-> "Ok", lrefs |-> Insert(lrefs, ref_name, git_hash)]
    ELSE IF git[git_hash].kind = "tag" THEN [res |-> "Ok", lrefs |-> lrefs]
    ELSE [res |-> "Err", lrefs |-> lrefs]

set_local_ref(db, lrefs, git_hash, ref_name) ==
    IF git_hash \notin db THEN [res |-> "Err", lrefs |-> lrefs]
    ELSE IF git[git_hash].kind = "commit" /\ starts_with_refs_tags(ref_name)
    THEN [res |-> "Ok", lrefs |-> lrefs]
    ELSE IF git[git_hash].kind = "commit"
    THEN [res |-> "Ok", lrefs |-> Insert(lrefs, ref_name, git_hash)]
    ELSE IF git[git_hash].kind = "tag" THEN [res |-> "Ok", lrefs |-> lrefs]
    ELSE [res |-> "Err", lrefs |-> lrefs]

\* A fetch that sets the ref before the downloads
local_ref_written_first(lrefs, ref_name, git_hash) == Insert(lrefs, ref_name, git_hash)

\* self.fetch_nip_objects(..)? returns before repo.reference(..) is reached
lrefs_of_failed_fetch(lrefs, ref_name, git_hash) == lrefs

\* net "check": a request of the walk fails.  "download": the objects of
\* net.done are written and the next download fails.  "order": the order in
\* which the loop takes the objects, when it stops at one of them.
fetch_to_ref_from_str(self_objects, store, db, lrefs, git_hash, ref_name, net) ==
    LET walk == enumerate_for_fetch(self_objects, store, db, git_hash, FetchStart)
        got == fetch_nip_objects(self_objects, store, db, walk.fetch)
        tip == set_local_ref(got.db, lrefs, git_hash, ref_name)
        stopped == lrefs_of_failed_fetch(lrefs, ref_name, git_hash)
    IN  IF net.kind = "check"
        THEN FetchResult("Err", db, lrefs, {}, walk.fetch # {})
        ELSE IF walk.err THEN FetchResult("Err", db, lrefs, {}, net.kind = "ok")
        ELSE IF net.kind = "download"
        THEN FetchResult("Err",
                         fetch_nip_objects(self_objects, store, db, net.done).db,
                         stopped, walk.fetch,
                         net.done \subseteq walk.fetch /\ net.done # walk.fetch)
        ELSE IF net.kind = "order"
        THEN FetchResult("Err",
                         fetch_nip_objects(self_objects, store,
                             fetch_nip_objects(self_objects, store, db, net.done).db,
                             {net.raw}).db,
                         stopped, walk.fetch,
                         /\ net.raw \in failing_oids(self_objects, store, db, walk.fetch)
                         /\ net.done \subseteq walk.fetch
                               \ failing_oids(self_objects, store, db, walk.fetch))
        ELSE IF got.err THEN FetchResult("Err", got.db, stopped, walk.fetch, TRUE)
        ELSE FetchResult(tip.res, got.db, tip.lrefs, walk.fetch, TRUE)

\* The hashes whose encoded NIPObject one fetch_to_ref_from_str downloads
\* (NIPObject::ipfs_get), one item per download: those of the walk, then
\* those of the loop of fetch_nip_objects
fetch_downloads(self_objects, store, db, git_hash, net) ==
    LET walk == enumerate_for_fetch(self_objects, store, db, git_hash, FetchStart)
        first == fetch_nip_objects(self_objects, store, db, net.done)
    IN  IF net.kind = "check" THEN <<>>
        ELSE IF walk.err THEN walk.gets
        ELSE IF net.kind = "download" THEN walk.gets \o first.gets
        ELSE IF net.kind = "order"
        THEN walk.gets \o first.gets
             \o fetch_nip_objects(self_objects, store, first.db, {net.raw}).gets
        ELSE walk.gets \o fetch_nip_objects(self_objects, store, db, walk.fetch).gets

(***************************************************************************)
(* NIPIndex::ipfs_add (src/index.rs)                                       *)
(***************************************************************************)
NewIPFS == <<"NewIPFS">>
NewIPNS == <<"NewIPNS">>
ExistingIPFS(hash) == <<"ExistingIPFS", hash>>
ExistingIPNS(hash) == <<"ExistingIPNS", hash>>

is_ipns(remote) == remote[1] \in {"NewIPNS", "ExistingIPNS"}

\* NIPRemote::to_string of an existing IPFS remote
remote_to_string(remote) == Link(remote[2])

NIPIndex(r, o, p) == [refs |-> r, objects |-> o, prev_idx_hash |-> p]

\* NIPRemote::from_str of a link: <<TRUE, remote>>, or <<FALSE, _>>
parse(link) ==
    IF link[1] = "/ipfs/" THEN <<TRUE, ExistingIPFS(link[2])>>
    ELSE IF link[1] = "/ipns/" THEN <<TRUE, ExistingIPNS(link[2])>>
    ELSE <<FALSE, "InvalidLinkFormat">>

\* ipns_deref: <<TRUE, "/ipfs/<path>">>, or <<FALSE, _>> when the name does
\* not resolve.  store.name: what each published name resolves to.
ipns_deref(store, ipns_hash) ==
    IF ipns_hash \in DOMAIN store.name THEN <<TRUE, Link(store.name[ipns_hash])>>
    ELSE <<FALSE, "resolve">>

\* A load that takes every version from the current one on
from_slice_newer_accepted(bytes) ==
    IF Len(bytes.header) < NIP_HEADER_LEN THEN <<FALSE, "panic">>
    ELSE LET protocol_version == parse_nip_header(SubSeq(bytes.header, 1, NIP_HEADER_LEN))
         IN  IF ~protocol_version[1] THEN protocol_version
             ELSE IF protocol_version[2] < NIP_PROTOCOL_VERSION
             THEN <<FALSE, "InvalidVersion">>
             ELSE IF bytes.payload = Garbage THEN <<FALSE, "decode">>
             ELSE <<TRUE, bytes.payload>>

\* NIPIndex::from_slice: <<TRUE, index>>, or <<FALSE, why>>.  Slicing
\* bytes[..NIP_HEADER_LEN] panics on a shorter input.
from_slice(bytes) ==
    IF Len(bytes.header) < NIP_HEADER_LEN THEN <<FALSE, "panic">>
    ELSE LET protocol_version == parse_nip_header(SubSeq(bytes.header, 1, NIP_HEADER_LEN))
         IN  IF ~protocol_version[1] THEN protocol_version
             ELSE IF protocol_version[2] < NIP_PROTOCOL_VERSION
             THEN <<FALSE, "InvalidVersion">>
             ELSE IF protocol_version[2] > NIP_PROTOCOL_VERSION
             THEN <<FALSE, "InvalidVersion">>
             ELSE IF bytes.payload = Garbage THEN <<FALSE, "decode">>
             ELSE <<TRUE, bytes.payload>>

\* ipfs_cat of an index and from_slice.  store.idx: the encoded indexes the
\* content store holds.
from_existing_ipfs(store, hash) ==
    IF hash \notin store.idx THEN <<FALSE, "cat">> ELSE from_slice(hash)

\* NIPIndex::from_nip_remote: <<TRUE, index>>, or <<FALSE, why>>
from_nip_remote(remote, store) ==
    IF remote[1] = "ExistingIPFS" THEN from_existing_ipfs(store, remote[2])
    ELSE IF remote[1] = "ExistingIPNS"
    THEN LET link == ipns_deref(store, remote[2]) IN
         IF ~link[1] THEN link
         ELSE IF ~parse(link[2])[1] THEN parse(link[2])
         ELSE from_existing_ipfs(store, parse(link[2])[2][2])
    ELSE <<TRUE, NIPIndex(EmptyMap, EmptyMap, None)>>

\* An index published without a predecessor
prev_forgotten(prev_remote, resolved) == <<TRUE, None>>

\* The new prev_idx_hash: <<TRUE, value>>, or <<FALSE, _>> when ipns_deref
\* fails.  resolved: what the name resolves to (None: the request fails).
prev_of(prev_remote, resolved) ==
    IF prev_remote = None THEN <<TRUE, None>>
    ELSE IF prev_remote[1] = "ExistingIPFS" THEN <<TRUE, remote_to_string(prev_remote)>>
    ELSE IF prev_remote[1] = "ExistingIPNS"
    THEN IF resolved = None THEN <<FALSE, None>> ELSE <<TRUE, resolved>>
    ELSE <<TRUE, None>>

\* A publish that never touches the name
never_republished(prev_remote) == FALSE

\* prev_remote.map(|remote| remote.is_ipns()).unwrap_or(false)
republished(prev_remote) == prev_remote # None /\ is_ipns(prev_remote)

\* The index after ipfs_add and the remote it returns.  self_buf: the encoded
\* index added to the content store (None: nothing was added); publish: whether
\* name_publish has pointed the node's name, "self", at it.
ipfs_add(self_refs, self_objects, self_prev, prev_remote, resolved) ==
    LET prev == prev_of(prev_remote, resolved)
        self_buf == Encode(NIPIndex(self_refs, self_objects, prev[2]))
    IN  IF ~prev[1]
        THEN [res |-> "Err", prev_idx_hash |-> self_prev, ret |-> None,
              self_buf |-> None, publish |-> FALSE]
        ELSE IF republished(prev_remote)
        THEN [res |-> "Ok", prev_idx_hash |-> prev[2], ret |-> ExistingIPNS("self"),
              self_buf |-> self_buf, publish |-> TRUE]
        ELSE [res |-> "Ok", prev_idx_hash |-> prev[2], ret |-> ExistingIPFS(self_buf),
              self_buf |-> self_buf, publish |-> FALSE]

(***************************************************************************)
(* Migrations (src/migrations/mod.rs, src/migrations/object_v1.rs)         *)
(***************************************************************************)
\* MigrationError
ZeroVersion == <<"ZeroVersion">>
TooNew(version) == <<"TooNew", version>>

\* A failed call: <<FALSE, error>>.  The arm marked unreachable!() panics.
Err(e) == <<FALSE, e>>
Ok(v) == <<TRUE, v>>
DecodeError == <<"decode">>
Unreachable == <<"unreachable">>

\* NIPObject with its git_hash, as to_v2 builds it
NIPObjectV2(git_hash, raw, metadata) ==
    [git_hash |-> git_hash, raw_data_ipfs_hash |-> raw, metadata |-> metadata]

\* serde_cbor::from_slice at each type: the bytes decode when they are the
\* encoding of a value of that type
is_object_v1(data) == DOMAIN data = {"raw_data_ipfs_hash", "metadata"}
is_object_v2(data) == DOMAIN data = {"git_hash", "raw_data_ipfs_hash", "metadata"}
is_index(data) == DOMAIN data = {"refs", "objects", "prev_idx_hash"}

\* NIPObjectV1Metadata::to_v2, variant by variant
metadata_to_v2(md) ==
    CASE md.variant = "Commit" ->
           Metadata("Commit", md.parent_git_hashes, md.tree_git_hash, NoHash, {})
      [] md.variant = "Tag" -> Metadata("Tag", {}, NoHash, md.target_git_hash, {})
      [] md.variant = "Tree" -> Metadata("Tree", {}, NoHash, NoHash, md.entry_git_hashes)
      [] md.variant = "Blob" -> Metadata("Blob", {}, NoHash, NoHash, {})

\* An upgrade that keeps the git hash the object was stored without
to_v2_no_git_hash(obj, git_hash) ==
    NIPObjectV2(NoHash, obj.raw_data_ipfs_hash, metadata_to_v2(obj.metadata))

\* NIPObjectV1::to_v2
to_v2(obj, git_hash) ==
    NIPObjectV2(git_hash, obj.raw_data_ipfs_hash, metadata_to_v2(obj.metadata))

\* A dispatch whose TooNew arm starts one version late
version_arm_late(version) ==
    IF version = 0 THEN "zero"
    ELSE IF version = 1 THEN "v1"
    ELSE IF version = NIP_PROTOCOL_VERSION THEN "current"
    ELSE IF version > NIP_PROTOCOL_VERSION + 1 THEN "too_new"
    ELSE "unreachable"

\* match version { 0, 1, NIP_PROTOCOL_VERSION, other if other > .., _ }:
\* the first arm that matches
version_arm(version) ==
    IF version = 0 THEN "zero"
    ELSE IF version = 1 THEN "v1"
    ELSE IF version = NIP_PROTOCOL_VERSION THEN "current"
    ELSE IF version > NIP_PROTOCOL_VERSION THEN "too_new"
    ELSE "unreachable"

\* migrate_object(data, git_hash, version)
migrate_object(data, git_hash, version) ==
    CASE version_arm(version) = "zero" -> Err(ZeroVersion)
      [] version_arm(version) = "v1" ->
           IF is_object_v1(data) THEN Ok(to_v2(data, git_hash)) ELSE Err(DecodeError)
      [] version_arm(version) = "current" ->
           IF is_object_v2(data) THEN Ok(data) ELSE Err(DecodeError)
      [] version_arm(version) = "too_new" -> Err(TooNew(version))
      [] version_arm(version) = "unreachable" -> Err(Unreachable)

\* NIPObjectV1::from_slice, as NIPObjectV1::ipfs_get reads the bytes it has
\* downloaded: the header, version 1, then the payload
NIPObjectV1_from_slice(bytes) ==
    IF ~parse_nip_header(bytes.header)[1]
    THEN Err(<<parse_nip_header(bytes.header)[2]>>)
    ELSE IF parse_nip_header(bytes.header)[2] # 1 THEN Err(<<"version">>)
    ELSE IF ~is_object_v1(bytes.payload) THEN Err(DecodeError)
    ELSE Ok(bytes.payload)

\* The loop of migrate_index over idx.objects, in key order.  m: the state
\* of the loop (objects, store, the links it has downloaded and the git
\* hashes it has uploaded an object for, err); todo: the keys still to visit.
\* A loop that leaves the old link in the table
keep_link(objs, git_hash, new_hash) == objs

\* *ipfs_hash = new_hash
replace_link(objs, git_hash, new_hash) == [objs EXCEPT ![git_hash] = new_hash]

\* The loop of migrate_index over idx.objects, in key order.  m: the state
\* of the loop (objects, store, the links it has downloaded and the git
\* hashes it has uploaded an object for, err); todo: the keys still to visit.
RECURSIVE migrate_each(_, _)
migrate_each(m, todo) ==
    IF todo = {} \/ m.err # None THEN m
    ELSE LET git_hash == Min(todo)
             ipfs_hash == m.objects[git_hash]
             v1 == NIPObjectV1_from_slice(ipfs_hash[2])
             new == Encode(to_v2(v1[2], git_hash))
         IN  IF ipfs_hash = SUBMODULE_TIP_MARKER
             THEN migrate_each(m, todo \ {git_hash})
             ELSE IF ipfs_hash[2] \notin m.store.obj
             THEN [m EXCEPT !.err = <<"cat">>, !.cats = Append(@, ipfs_hash)]
             ELSE IF ~v1[1]
             THEN [m EXCEPT !.err = v1[2], !.cats = Append(@, ipfs_hash)]
             ELSE migrate_each([m EXCEPT !.objects = replace_link(@, git_hash, Link(new)),
                                         !.store = ipfs_add_obj(@, {new}),
                                         !.cats = Append(@, ipfs_hash),
                                         !.adds = Append(@, git_hash)],
                               todo \ {git_hash})

MigrateStart(objs, store) ==
    [objects |-> objs, store |-> store, cats |-> <<>>, adds |-> <<>>, err |-> None]

\* migrate_index(data, version, ipfs): res, the store after the call, and
\* what the call downloaded and uploaded
migrate_index(data, version, store) ==
    CASE version_arm(version) = "zero" ->
           [res |-> Err(ZeroVersion), store |-> store, cats |-> <<>>, adds |-> <<>>]
      [] version_arm(version) = "v1" ->
           IF ~is_index(data)
           THEN [res |-> Err(DecodeError), store |-> store, cats |-> <<>>, adds |-> <<>>]
           ELSE LET m == migrate_each(MigrateStart(data.objects, store),
                                      DOMAIN data.objects)
                IN
                [res |-> IF m.err # None THEN Err(m.err)
                         ELSE Ok(NIPIndex(data.refs, m.objects, data.prev_idx_hash)),
                 store |-> m.store, cats |-> m.cats, adds |-> m.adds]
      [] version_arm(version) = "current" ->
           [res |-> IF is_index(data) THEN Ok(data) ELSE Err(DecodeError),
            store |-> store, cats |-> <<>>, adds |-> <<>>]
      [] version_arm(version) = "too_new" ->
           [res |-> Err(TooNew(version)), store |-> store, cats |-> <<>>, adds |-> <<>>]
      [] version_arm(version) = "unreachable" ->
           [res |-> Err(Unreachable), store |-> store, cats |-> <<>>, adds |-> <<>>]

(***************************************************************************)
(* NIPRemote as text (src/remote.rs)                                       *)
(*                                                                         *)
(* A string is the sequence of its characters.  The inputs are ASCII, so   *)
(* str::len, a count of bytes, is the length of the sequence.              *)
(***************************************************************************)
IPFS_HASH_LEN == 46

NEW_IPFS == <<"n", "e", "w", "-", "i", "p", "f", "s">>
NEW_IPNS == <<"n", "e", "w", "-", "i", "p", "n", "s">>
IPFS_PREFIX == <<"/", "i", "p", "f", "s", "/">>
IPNS_PREFIX == <<"/", "i", "p", "n", "s", "/">>

\* NIPRemoteParseError
InvalidHashLength_swapped(got, expected) == <<"InvalidHashLength", expected, got>>

InvalidHashLength(got, expected) == <<"InvalidHashLength", got, expected>>
InvalidLinkFormat(s) == <<"InvalidLinkFormat", s>>
Other(msg) == <<"Other", msg>>

\* str::starts_with
starts_with(s, prefix) ==
    Len(s) >= Len(prefix) /\ SubSeq(s, 1, Len(prefix)) = prefix

\* s.split('/').nth(n): the n-th piece between separators, counted from 0,
\* or None when there are fewer pieces
split_nth(s, n) ==
    LET seps == {i \in 1..Len(s) : s[i] = "/"}
        sep(k) == CHOOSE p \in seps : Cardinality({q \in seps : q < p}) = k - 1
        first == IF n = 0 THEN 1 ELSE sep(n) + 1
        end == IF n = Cardinality(seps) THEN Len(s) ELSE sep(n + 1) - 1
    IN  IF n > Cardinality(seps) THEN None ELSE Some(SubSeq(s, first, end))

\* A rendering that leaves the scheme out
to_string_bare(remote) ==
    CASE remote[1] = "ExistingIPFS" -> remote[2]
      [] remote[1] = "ExistingIPNS" -> remote[2]
      [] remote[1] = "NewIPFS" -> NEW_IPFS
      [] remote[1] = "NewIPNS" -> NEW_IPNS

\* NIPRemote::to_string
to_string(remote) ==
    CASE remote[1] = "ExistingIPFS" -> IPFS_PREFIX \o remote[2]
      [] remote[1] = "ExistingIPNS" -> IPNS_PREFIX \o remote[2]
      [] remote[1] = "NewIPFS" -> NEW_IPFS
      [] remote[1] = "NewIPNS" -> NEW_IPNS

\* Only the hash of an existing remote
get_hash_bare(remote) ==
    IF remote[1] \in {"NewIPFS", "NewIPNS"} THEN None ELSE Some(remote[2])

\* NIPRemote::get_hash
get_hash(remote) ==
    IF remote[1] \in {"NewIPFS", "NewIPNS"} THEN None ELSE Some(to_string(remote))

\* NIPRemote::from_str: the first arm of the match that applies
from_str(s) ==
    IF s = NEW_IPFS THEN Ok(NewIPFS)
    ELSE IF s = NEW_IPNS THEN Ok(NewIPNS)
    ELSE IF starts_with(s, IPFS_PREFIX)
    THEN LET hash == split_nth(s, 2)
         IN  IF hash = None THEN Err(Other("Invalid hash format"))
             ELSE IF Len(hash[2]) # IPFS_HASH_LEN
             THEN Err(InvalidHashLength(Len(hash[2]), IPFS_HASH_LEN))
             ELSE Ok(ExistingIPFS(hash[2]))
    ELSE IF starts_with(s, IPNS_PREFIX)
    THEN LET hash == split_nth(s, 2)
         IN  IF hash = None THEN Err(InvalidLinkFormat(s))
             ELSE IF Len(hash[2]) # IPFS_HASH_LEN
             THEN Err(InvalidHashLength(Len(hash[2]), IPFS_HASH_LEN))
             ELSE Ok(ExistingIPNS(hash[2]))
    ELSE Err(InvalidLinkFormat(s))

(***************************************************************************)
(* The state machine                                                       *)
(***************************************************************************)
Blank ==
    [op |-> "init", repo |-> "A", src |-> <<>>, dst |-> <<>>, force |-> FALSE,
     net |-> "ok", res |-> "Ok", obj |-> NoHash, objs |-> {}, subs |-> {},
     oids |-> {}, hash |-> NoHash, ret |-> None]

Init ==
    /\ git = [h \in Hashes |-> TheRepo(h)]
    /\ refs = EmptyMap
    /\ objects = EmptyMap
    /\ prev_idx_hash = None
    /\ odb = [r \in Repos |-> IF r = "A" THEN Hashes \ {7} ELSE {}]
    /\ localrefs = [r \in Repos |->
                      IF r = "A" THEN (Dev :> 8) @@ (Master :> 5) @@ (TagV1 :> 6)
                      ELSE EmptyMap]
    /\ ipfs = [raw |-> {}, obj |-> {}]
    /\ nfail = 0
    /\ last = Blank

Failing(net) == IF net.kind \in {"ok", "order"} THEN 0 ELSE 1

\* what the network may do during a push: the uploads that can fail are those
\* of the push walk's object set
PushNets(r, ref_src) ==
    LET obj == resolve_obj(odb[r], localrefs[r], ref_src)
        todo == IF obj = NoHash THEN {}
                ELSE enumerate_for_push(objects, odb[r], obj, PushStart).push
    IN  IF nfail >= MaxFailures THEN {NetOk}
        ELSE {NetOk, NetCheck}
             \cup {NetUpload(done, NoHash) : done \in (SUBSET todo) \ {todo}}

\* push_ref_from_str with a source ref
PushRef(r, ref_src, ref_dst, force, net) ==
    /\ ref_src # <<>>
    /\ nfail + Failing(net) <= MaxFailures
    /\ \E out \in {push_ref_from_str(refs, objects, ipfs, odb[r], localrefs[r],
                                     ref_src, ref_dst, force, net)} :
        /\ out.fits
        /\ refs' = out.refs
        /\ objects' = out.objects
        /\ ipfs' = out.ipfs
        /\ nfail' = nfail + Failing(net)
        /\ last' = [Blank EXCEPT !.op = "push", !.repo = r, !.src = ref_src,
                                 !.dst = ref_dst, !.force = force,
                                 !.net = net.kind, !.res = out.res,
                                 !.obj = out.obj, !.objs = out.objs,
                                 !.subs = out.subs]
        /\ UNCHANGED <<git, prev_idx_hash, odb, localrefs>>

\* push_ref_from_str with an empty source ref: the ref is deleted (the
\* repository and force are not looked at)
DeleteRef(ref_dst) ==
    \E out \in {push_ref_from_str(refs, objects, ipfs, odb["A"], localrefs["A"],
                                  <<>>, ref_dst, FALSE, NetOk)} :
        /\ refs' = out.refs
        /\ objects' = out.objects
        /\ ipfs' = out.ipfs
        /\ last' = [Blank EXCEPT !.op = "delete", !.dst = ref_dst, !.res = out.res]
        /\ UNCHANGED <<git, prev_idx_hash, odb, localrefs, nfail>>

\* what the network may do during a fetch: the downloads that can fail are
\* those of the fetch walk's set
FetchNets(r, git_hash) ==
    LET todo == enumerate_for_fetch(objects, ipfs, odb[r], git_hash, FetchStart).fetch
    IN  IF nfail >= MaxFailures THEN {NetOk}
        ELSE {NetOk, NetCheck}
             \cup {NetDownload(done) : done \in (SUBSET todo) \ {todo}}

\* fetch_to_ref_from_str of a ref the index lists
FetchRef(r, ref_name, net) ==
    /\ nfail + Failing(net) <= MaxFailures
    /\ \E out \in {fetch_to_ref_from_str(objects, ipfs, odb[r], localrefs[r],
                                         refs[ref_name], ref_name, net)} :
        /\ out.fits
        /\ odb' = [odb EXCEPT ![r] = out.db]
        /\ localrefs' = [localrefs EXCEPT ![r] = out.lrefs]
        /\ nfail' = nfail + Failing(net)
        /\ last' = [Blank EXCEPT !.op = "fetch", !.repo = r, !.dst = ref_name,
                                 !.hash = refs[ref_name], !.net = net.kind,
                                 !.res = out.res, !.oids = out.oids]
        /\ UNCHANGED <<git, refs, objects, prev_idx_hash, ipfs>>

\* the remotes a caller passes to ipfs_add, and what a name resolves to
PrevRemotes == {None, NewIPFS, NewIPNS, ExistingIPFS("QmOld"), ExistingIPNS("QmName")}
Resolutions == {None, Link("QmOld")}

\* NIPIndex::ipfs_add
Publish(prev_remote, resolved) ==
    \E out \in {ipfs_add(refs, objects, prev_idx_hash, prev_remote, resolved)} :
        /\ prev_idx_hash' = out.prev_idx_hash
        /\ last' = [Blank EXCEPT !.op = "publish", !.res = out.res, !.ret = out.ret]
        /\ UNCHANGED <<git, refs, objects, odb, localrefs, ipfs, nfail>>

\* Every request to the content store is answered
Next ==
    \/ \E r \in Repos, ref_src \in RefNames, ref_dst \in DstRefs,
          force \in BOOLEAN : PushRef(r, ref_src, ref_dst, force, NetOk)
    \/ \E ref_dst \in DstRefs : DeleteRef(ref_dst)
    \/ \E ref_name \in DOMAIN refs : FetchRef("B", ref_name, NetOk)
    \/ \E prev_remote \in PrevRemotes, resolved \in Resolutions :
          Publish(prev_remote, resolved)

Spec == Init /\ [][Next]_vars

\* Requests to the content store may fail, MaxFailures times; the operations
\* work on one ref of the index
NextFail ==
    \/ \E r \in Repos, ref_src \in RefNames, ref_dst \in FailDstRefs,
          force \in BOOLEAN :
          \E net \in PushNets(r, ref_src) : PushRef(r, ref_src, ref_dst, force, net)
    \/ \E ref_dst \in FailDstRefs : DeleteRef(ref_dst)
    \/ \E ref_name \in DOMAIN refs :
          \E net \in FetchNets("B", refs[ref_name]) : FetchRef("B", ref_name, net)

SpecFail == Init /\ [][NextFail]_vars

\* The same, from a repository A that may have lost the tree of its first
\* commit: a push walk that comes to that commit fails
LostObjects == {{}, {2}}

InitBroken ==
    /\ git = [h \in Hashes |-> TheRepo(h)]
    /\ refs = EmptyMap
    /\ objects = EmptyMap
    /\ prev_idx_hash = None
    /\ \E lost \in LostObjects :
          odb = [r \in Repos |-> IF r = "A" THEN (Hashes \ {7}) \ lost ELSE {}]
    /\ localrefs = [r \in Repos |->
                      IF r = "A" THEN (Dev :> 8) @@ (Master :> 5) @@ (TagV1 :> 6)
                      ELSE EmptyMap]
    /\ ipfs = [raw |-> {}, obj |-> {}]
    /\ nfail = 0
    /\ last = Blank

SpecBroken == InitBroken /\ [][NextFail]_vars

\* The same as Init, with the branch dev of repository A at commit 3, the
\* commit that tree 4 lists as a submodule
InitTips ==
    /\ git = [h \in Hashes |-> TheRepo(h)]
    /\ refs = EmptyMap
    /\ objects = EmptyMap
    /\ prev_idx_hash = None
    /\ odb = [r \in Repos |-> IF r = "A" THEN Hashes \ {7} ELSE {}]
    /\ localrefs = [r \in Repos |->
                      IF r = "A" THEN (Dev :> 3) @@ (Master :> 5) @@ (TagV1 :> 6)
                      ELSE EmptyMap]
    /\ ipfs = [raw |-> {}, obj |-> {}]
    /\ nfail = 0
    /\ last = Blank

SpecTips == InitTips /\ [][Next]_vars

(***************************************************************************)
(* Vocabulary of the properties                                            *)
(***************************************************************************)
\* The objects a git object refers to, submodule entries of trees left out
Children(h) ==
    CASE git[h].kind = "commit" -> {git[h].tree} \cup Range(git[h].parents)
      [] git[h].kind = "tag" -> {git[h].target}
      [] git[h].kind = "tree" -> {e.id : e \in {f \in git[h].entries : f.kind # "commit"}}
      [] git[h].kind = "blob" -> {}

\* The least set holding S and closed under Children
RECURSIVE Closure(_)
Closure(S) ==
    LET T == S \cup UNION {Children(h) : h \in S}
    IN  IF T = S THEN S ELSE Closure(T)

Reachable(h) == Closure({h})

\* The commit-kind entries of the trees among S
SubmoduleTips(S) ==
    UNION {{e.id : e \in {f \in git[h].entries : f.kind = "commit"}} :
           h \in {x \in S : git[x].kind = "tree"}}

\* The hashes a NIPObject's metadata refers to
MetadataHashes(md) ==
    CASE md.variant = "Commit" -> {md.tree_git_hash} \cup md.parent_git_hashes
      [] md.variant = "Tag" -> {md.target_git_hash}
      [] md.variant = "Tree" -> md.entry_git_hashes
      [] md.variant = "Blob" -> {}

IsLink(v) == v # SUBMODULE_TIP_MARKER

\* The index entries recorded under a content link
Linked == {h \in DOMAIN objects : IsLink(objects[h])}

(***************************************************************************)
(* An index loaded from a remote                                           *)
(***************************************************************************)
\* The objects of repository A
LocalA == Hashes \ {7}

\* The index that records every object of A, and 7 as a submodule tip
FullIndex ==
    [h \in Hashes |-> IF h \in LocalA THEN nip_object_hash(h) ELSE SUBMODULE_TIP_MARKER]

\* A lower and a higher protocol version
OtherVersions == {NIP_PROTOCOL_VERSION - 1, NIP_PROTOCOL_VERSION + 1}

\* What the entry of h may link to instead: the NIPObject of another object,
\* bytes of another protocol version, bytes whose magic has a wrong byte,
\* bytes too short for a header, a payload that does not decode, or the marker
WrongLinks(h) ==
    {nip_object_hash(x) : x \in LocalA \ {h}}
    \cup {Link(Bytes(gen_nip_header(Some(v)), p)) :
             v \in OtherVersions, p \in {from_git(h), Garbage}}
    \cup {Link(Bytes([gen_nip_header(None) EXCEPT ![m] = 0], from_git(h))) :
             m \in {1, Len(NIP_MAGIC)}}
    \cup {Link(Bytes(SubSeq(gen_nip_header(None), 1, NIP_HEADER_LEN - 1), Garbage))}
    \cup {Link(Bytes(gen_nip_header(None), Garbage))}
    \cup {SUBMODULE_TIP_MARKER}

\* from_nip_remote hands out whatever index the remote holds: the full index,
\* or the full index with one entry missing or wrong
LoadedIndexes ==
    {FullIndex}
    \cup {Remove(FullIndex, h) : h \in Hashes}
    \cup UNION {{Insert(FullIndex, h, v) : v \in WrongLinks(h)} : h \in LocalA}

\* The object databases of B: empty, or what an earlier fetch of an object left
LoadedOdbs == {{}} \cup {Reachable(h) : h \in LocalA}

\* The encoded NIPObjects the content store holds beside an encoded index:
\* those of A's objects and what the entries of the index link to
StoredObjects(bytes) ==
    {Encode(from_git(h)) : h \in LocalA}
    \cup (IF bytes.payload = Garbage THEN {}
          ELSE {v[2] : v \in Range(bytes.payload.objects) \ {SUBMODULE_TIP_MARKER}})

\* The encoded index a remote may hold: one of those indexes under a header
\* of the current version, or the full index or bytes that do not decode
\* under a header of another version, with a wrong byte in the magic, or too
\* short
StoredIndexes ==
    {Encode(NIPIndex(Master :> 5, o, None)) : o \in LoadedIndexes}
    \cup {Bytes(header, p) :
             header \in {gen_nip_header(Some(v)) : v \in OtherVersions}
                        \cup {[gen_nip_header(None) EXCEPT ![m] = 0] :
                                 m \in {1, Len(NIP_MAGIC)}}
                        \cup {SubSeq(gen_nip_header(None), 1, NIP_HEADER_LEN - 1)},
             p \in {NIPIndex(Master :> 5, FullIndex, None), Garbage}}
    \cup {Bytes(gen_nip_header(None), Garbage)}

\* The remotes a caller may load from: the index of the store, a name that
\* resolves to it, one that does not resolve, a placeholder
LoadRemotes ==
    {ExistingIPFS(b) : b \in ipfs.idx}
    \cup {ExistingIPNS(n) : n \in DOMAIN ipfs.name \cup {"QmNone"}}
    \cup {NewIPFS}

InitLoaded ==
    /\ git = [h \in Hashes |-> TheRepo(h)]
    /\ refs = EmptyMap
    /\ objects = EmptyMap
    /\ prev_idx_hash = None
    /\ odb \in {[r \in Repos |-> IF r = "A" THEN LocalA ELSE db] : db \in LoadedOdbs}
    /\ localrefs = [r \in Repos |->
                      IF r = "A" THEN (Dev :> 8) @@ (Master :> 5) @@ (TagV1 :> 6)
                      ELSE EmptyMap]
    /\ \E bytes \in StoredIndexes :
          ipfs = [raw |-> {git[h].data : h \in LocalA},
                  obj |-> StoredObjects(bytes),
                  idx |-> {bytes},
                  name |-> IF bytes = Encode(NIPIndex(Master :> 5, FullIndex, None))
                           THEN "QmName" :> bytes ELSE EmptyMap]
    /\ nfail = 0
    /\ last = Blank

\* NIPIndex::from_nip_remote: the caller's index becomes what the remote holds
LoadIndex(remote) ==
    \E out \in {from_nip_remote(remote, ipfs)} :
        /\ refs' = IF out[1] THEN out[2].refs ELSE refs
        /\ objects' = IF out[1] THEN out[2].objects ELSE objects
        /\ prev_idx_hash' = IF out[1] THEN out[2].prev_idx_hash ELSE prev_idx_hash
        /\ last' = [Blank EXCEPT !.op = "load", !.ret = remote,
                                 !.res = IF out[1] THEN "Ok" ELSE out[2]]
        /\ UNCHANGED <<git, odb, localrefs, ipfs, nfail>>

\* the orders in which the loop of fetch_nip_objects may take the fetch set
\* when it stops at one of them, and the downloads that may fail when it
\* would not stop
FetchOrders(r, git_hash) ==
    LET walk == enumerate_for_fetch(objects, ipfs, odb[r], git_hash, FetchStart)
        todo == walk.fetch
        bad == failing_oids(objects, ipfs, odb[r], todo)
    IN  IF walk.err THEN {NetOk}
        ELSE IF bad = {}
        THEN {NetOk} \cup {NetDownload(done) : done \in (SUBSET todo) \ {todo}}
        ELSE {NetOrder(done, oid) : done \in SUBSET (todo \ bad), oid \in bad}

\* fetch_to_ref_from_str of any hash to any ref name
FetchHash(r, git_hash, ref_name, net) ==
    \E out \in {fetch_to_ref_from_str(objects, ipfs, odb[r], localrefs[r],
                                      git_hash, ref_name, net)} :
        /\ out.fits
        /\ odb' = [odb EXCEPT ![r] = out.db]
        /\ localrefs' = [localrefs EXCEPT ![r] = out.lrefs]
        /\ last' = [Blank EXCEPT !.op = "fetch", !.repo = r, !.dst = ref_name,
                                 !.hash = git_hash, !.net = net.kind,
                                 !.res = out.res, !.oids = out.oids]
        /\ UNCHANGED <<git, refs, objects, prev_idx_hash, ipfs, nfail>>

\* The caller loads an index, then fetches from it or pushes to it, once;
\* the downloads that fail are tried for one ref name
NextLoaded ==
    \/ /\ last.op = "init"
       /\ \E remote \in LoadRemotes : LoadIndex(remote)
    \/ /\ last.op = "load" /\ last.res = "Ok"
       /\ \E r \in Repos, git_hash \in Hashes, ref_name \in DstRefs :
             \E net \in FetchOrders(r, git_hash) :
                /\ net.kind = "download" => ref_name = Master
                /\ FetchHash(r, git_hash, ref_name, net)
    \/ /\ last.op = "load" /\ last.res = "Ok"
       /\ \E ref_src \in RefNames, ref_dst \in DstRefs, force \in BOOLEAN :
             PushRef("A", ref_src, ref_dst, force, NetOk)

SpecLoaded == InitLoaded /\ [][NextLoaded]_vars

(***************************************************************************)
(* The header codec on its own                                             *)
(***************************************************************************)
\* The magic, and the magic with one byte changed
Magics ==
    {NIP_MAGIC} \cup {[NIP_MAGIC EXCEPT ![i] = b] :
                        i \in DOMAIN NIP_MAGIC, b \in {0, 255}}

\* Inputs of parse_nip_header: up to MaxInputLen bytes
HeaderInputs ==
    {SubSeq(m \o t, 1, n) :
        m \in Magics, t \in [1..(MaxInputLen - Len(NIP_MAGIC)) -> {0, 2, 255}],
        n \in 0..MaxInputLen}

\* Inputs of gen_nip_header
VersionInputs == {None} \cup {Some(v) : v \in U16}

\* want: the function the caller calls first; version, header: its input;
\* parsed: what parse_nip_header returned
Codec(want, version, header) ==
    Blank @@ [want |-> want, version |-> version, header |-> header, parsed |-> None]

InitHeader ==
    /\ git = [h \in Hashes |-> TheRepo(h)]
    /\ refs = EmptyMap
    /\ objects = EmptyMap
    /\ prev_idx_hash = None
    /\ odb = [r \in Repos |-> {}]
    /\ localrefs = [r \in Repos |-> EmptyMap]
    /\ ipfs = [raw |-> {}, obj |-> {}]
    /\ nfail = 0
    /\ \/ \E version \in VersionInputs : last = Codec("gen", version, <<>>)
       \/ \E header \in HeaderInputs : last = Codec("parse", None, header)

GenHeader ==
    /\ last.op = "init" /\ last.want = "gen"
    /\ last' = [last EXCEPT !.op = "gen", !.header = gen_nip_header(last.version)]
    /\ UNCHANGED <<git, refs, objects, prev_idx_hash, odb, localrefs, ipfs, nfail>>

ParseHeader ==
    /\ \/ last.op = "init" /\ last.want = "parse"
       \/ last.op = "gen"
    /\ last' = [last EXCEPT !.op = "parse", !.parsed = parse_nip_header(last.header)]
    /\ UNCHANGED <<git, refs, objects, prev_idx_hash, odb, localrefs, ipfs, nfail>>

NextHeader == GenHeader \/ ParseHeader

SpecHeader == InitHeader /\ [][NextHeader]_vars

\* Stored bytes as from_slice splits them: at most NIP_HEADER_LEN bytes in
\* front, and what follows, which is no index here
AsBytes(input) ==
    Bytes(SubSeq(input, 1, Min({Len(input), NIP_HEADER_LEN})), Garbage)

\* The same inputs, handed to NIPIndex::from_slice
InitDecode ==
    /\ git = [h \in Hashes |-> TheRepo(h)]
    /\ refs = EmptyMap
    /\ objects = EmptyMap
    /\ prev_idx_hash = None
    /\ odb = [r \in Repos |-> {}]
    /\ localrefs = [r \in Repos |-> EmptyMap]
    /\ ipfs = [raw |-> {}, obj |-> {}]
    /\ nfail = 0
    /\ \E header \in HeaderInputs : last = Codec("decode", None, header)

\* NIPIndex::from_slice of the input
DecodeIndex ==
    /\ last.op = "init" /\ last.want = "decode"
    /\ last' = [last EXCEPT !.op = "decode",
                            !.parsed = from_slice(AsBytes(last.header))]
    /\ UNCHANGED <<git, refs, objects, prev_idx_hash, odb, localrefs, ipfs, nfail>>

\* parse_nip_header of the same input, after the decoding
ParseDecoded ==
    /\ last.op = "decode"
    /\ last' = [last EXCEPT !.op = "parse", !.parsed = parse_nip_header(last.header)]
    /\ UNCHANGED <<git, refs, objects, prev_idx_hash, odb, localrefs, ipfs, nfail>>

NextDecode == DecodeIndex \/ ParseDecoded

SpecDecode == InitDecode /\ [][NextDecode]_vars

(***************************************************************************)
(* Rounds of load, push and publish by one caller                          *)
(***************************************************************************)
\* remote: the remote the caller holds; prev: the remote it passed to the last
\* ipfs_add; pubs: the encoded indexes it has published, in order
Caller(remote) == Blank @@ [remote |-> remote, prev |-> None, pubs |-> <<>>]

InitPublish ==
    /\ git = [h \in Hashes |-> TheRepo(h)]
    /\ refs = EmptyMap
    /\ objects = EmptyMap
    /\ prev_idx_hash = None
    /\ odb = [r \in Repos |-> IF r = "A" THEN LocalA ELSE {}]
    /\ localrefs = [r \in Repos |->
                      IF r = "A" THEN (Dev :> 8) @@ (Master :> 5) @@ (TagV1 :> 6)
                      ELSE EmptyMap]
    /\ ipfs = [raw |-> {}, obj |-> {}, idx |-> {}, name |-> EmptyMap]
    /\ nfail = 0
    /\ \E remote \in {None, NewIPFS, NewIPNS} : last = Caller(remote)

\* What the caller does to the loaded index: nothing, a push or a deletion
Steps ==
    {[ref_src |-> <<>>, ref_dst |-> <<>>, force |-> FALSE]}
    \cup [ref_src : RefNames \cup {<<>>}, ref_dst : DstRefs, force : BOOLEAN]

\* the index after the caller's step, and the content store
stepped(index, step) ==
    IF step.ref_dst = <<>>
    THEN [refs |-> index.refs, objects |-> index.objects, ipfs |-> ipfs]
    ELSE push_ref_from_str(index.refs, index.objects, ipfs, odb["A"], localrefs["A"],
                           step.ref_src, step.ref_dst, step.force, NetOk)

\* The caller loads the index from the remote it holds (with no remote, or a
\* placeholder, it starts from an empty index), works on it, and publishes it
\* with that remote as prev_remote.  resolves: whether name_resolve answers.
Round(step, resolves) ==
    /\ Len(last.pubs) < MaxPublishes
    /\ \E store \in {IF resolves THEN ipfs ELSE [ipfs EXCEPT !.name = EmptyMap]} :
       \E loaded \in {IF last.remote = None
                      THEN <<TRUE, NIPIndex(EmptyMap, EmptyMap, None)>>
                      ELSE from_nip_remote(last.remote, store)} :
          IF ~loaded[1]
          THEN /\ last' = [last EXCEPT !.op = "round", !.res = "Err", !.ret = None,
                                       !.prev = last.remote]
               /\ UNCHANGED <<git, refs, objects, prev_idx_hash, odb, localrefs,
                              ipfs, nfail>>
          ELSE \E work \in {stepped(loaded[2], step)} :
               \E resolved \in {IF last.remote # None /\ last.remote[1] = "ExistingIPNS"
                                THEN ipns_deref(store, last.remote[2])[2]
                                ELSE None} :
               \E out \in {ipfs_add(work.refs, work.objects, loaded[2].prev_idx_hash,
                                    last.remote, resolved)} :
                  /\ refs' = work.refs
                  /\ objects' = work.objects
                  /\ prev_idx_hash' = out.prev_idx_hash
                  /\ ipfs' = IF out.res # "Ok" THEN work.ipfs
                             ELSE [work.ipfs EXCEPT
                                      !.idx = @ \cup {out.self_buf},
                                      !.name = IF out.publish
                                               THEN Insert(@, "self", out.self_buf)
                                               ELSE @]
                  /\ last' = [last EXCEPT
                                 !.op = "round", !.res = out.res, !.ret = out.ret,
                                 !.prev = last.remote,
                                 !.remote = IF out.res = "Ok" THEN out.ret ELSE @,
                                 !.pubs = IF out.res = "Ok"
                                          THEN Append(@, out.self_buf) ELSE @]
                  /\ UNCHANGED <<git, odb, localrefs, nfail>>

NextPublish == \E step \in Steps, resolves \in BOOLEAN : Round(step, resolves)

SpecPublish == InitPublish /\ [][NextPublish]_vars

(***************************************************************************)
(* Migrations of stored indexes and objects                                *)
(***************************************************************************)
\* What version 1 stored for a git object: the NIPObject without git_hash
V1Bytes(h) == Bytes(gen_nip_header(Some(1)), from_git(h))

\* Stored bytes that are no version-1 object: a current object, and a
\* version-1 header in front of something else
CurrentBytes(h) == Encode(to_v2(from_git(h), h))
BrokenBytes(h) == {CurrentBytes(h), Bytes(gen_nip_header(Some(1)), Garbage)}

\* The objects table of a version-1 index over the keys S, tips: its
\* submodule tips
V1Objects(S, tips) ==
    [h \in S |-> IF h \in tips THEN SUBMODULE_TIP_MARKER ELSE Link(V1Bytes(h))]

V1Tables ==
    {V1Objects(S, tips) : S \in SUBSET Hashes, tips \in SUBSET {3, 7}}
    \cup {[V1Objects(Hashes, {7}) EXCEPT ![h] = Link(b)] :
            h \in Hashes, b \in UNION {BrokenBytes(x) : x \in Hashes}}

CurrentTable == [h \in Hashes |-> IF h = 7 THEN SUBMODULE_TIP_MARKER ELSE Link(CurrentBytes(h))]

\* Headerless index data
IndexData ==
    {NIPIndex(r, o, p) : r \in {EmptyMap, Master :> 5}, o \in V1Tables,
                         p \in {None, Some(Link(Garbage))}}
    \cup {NIPIndex(Master :> 5, CurrentTable, None), Garbage}

\* Headerless object data
ObjectData ==
    {from_git(h) : h \in Hashes} \cup {to_v2(from_git(h), h) : h \in Hashes}
    \cup {Garbage, NIPIndex(EmptyMap, EmptyMap, None)}

\* The store holds what the objects table of the index links to
StoredFor(data) ==
    IF ~is_index(data) THEN {}
    ELSE {data.objects[h][2] :
            h \in {x \in DOMAIN data.objects : data.objects[x] # SUBMODULE_TIP_MARKER}}

\* The versions tried with every data, and every version with one data
NearVersions == 0..(NIP_PROTOCOL_VERSION + 1)

\* want: the function the caller calls; data, version, git_hash: its
\* arguments; out: what it returned; cats, adds: what it downloaded and
\* the git hashes it uploaded an object for
Migration(want, data, version, git_hash) ==
    Blank @@ [want |-> want, data |-> data, version |-> version,
              git_hash |-> git_hash, out |-> None, cats |-> <<>>, adds |-> <<>>]

InitMigrate ==
    /\ git = [h \in Hashes |-> TheRepo(h)]
    /\ refs = EmptyMap
    /\ objects = EmptyMap
    /\ prev_idx_hash = None
    /\ odb = [r \in Repos |-> {}]
    /\ localrefs = [r \in Repos |-> EmptyMap]
    /\ nfail = 0
    /\ \/ \E data \in IndexData, version \in NearVersions :
            last = Migration("index", data, version, NoHash)
       \/ \E version \in U16 :
            last = Migration("index", NIPIndex(Master :> 5, V1Objects({3, 5}, {3}), None),
                             version, NoHash)
       \/ \E data \in ObjectData, version \in NearVersions, git_hash \in Hashes :
            last = Migration("object", data, version, git_hash)
       \/ \E version \in U16 :
            last = Migration("object", from_git(5), version, 5)
    /\ \E lost \in IF last.want = "index" /\ last.version = 1 THEN {{}, {2}} ELSE {{}} :
         ipfs = [raw |-> {}, obj |-> StoredFor(last.data) \ {V1Bytes(h) : h \in lost}]

MigrateIndex ==
    /\ last.op = "init" /\ last.want = "index"
    /\ \E m \in {migrate_index(last.data, last.version, ipfs)} :
         /\ last' = [last EXCEPT !.op = "migrate_index", !.out = m.res,
                                 !.cats = m.cats, !.adds = m.adds]
         /\ ipfs' = m.store
    /\ UNCHANGED <<git, refs, objects, prev_idx_hash, odb, localrefs, nfail>>

MigrateObject ==
    /\ last.op = "init" /\ last.want = "object"
    /\ last' = [last EXCEPT !.op = "migrate_object",
                            !.out = migrate_object(last.data, last.git_hash, last.version)]
    /\ UNCHANGED <<git, refs, objects, prev_idx_hash, odb, localrefs, ipfs, nfail>>

NextMigrate == MigrateIndex \/ MigrateObject

SpecMigrate == InitMigrate /\ [][NextMigrate]_vars

(***************************************************************************)
(* Remote addresses parsed and rendered                                    *)
(***************************************************************************)
\* n times the character c
Fill(c, n) == [i \in 1..n |-> c]

\* Hashes of every length up to one more than IPFS_HASH_LEN
HashTexts == {Fill(c, n) : c \in {"Q", "m"}, n \in 0..(IPFS_HASH_LEN + 1)}

\* What may follow the hash: up to MaxExtra characters
Extras == UNION {[1..n -> {"/", "x"}] : n \in 0..MaxExtra}

Schemes ==
    {IPFS_PREFIX, IPNS_PREFIX, <<>>, <<"/">>, <<"i", "p", "f", "s", "/">>,
     <<"/", "i", "p", "f", "s">>, <<"/", "i", "p", "f", "x", "/">>,
     <<"/", "I", "P", "F", "S", "/">>}

\* Inputs of from_str
RemoteTexts ==
    {p \o h \o e : p \in Schemes, h \in HashTexts, e \in Extras}
    \cup {t \o e : t \in {NEW_IPFS, NEW_IPNS, <<"n", "e", "w">>}, e \in Extras}

\* Values of NIPRemote: the hash of an Existing variant is any String
RemoteValues ==
    {NewIPFS, NewIPNS}
    \cup {ExistingIPFS(h \o e) : h \in HashTexts, e \in Extras}
    \cup {ExistingIPNS(h \o e) : h \in HashTexts, e \in Extras}

\* want: the function the caller calls first; text: a string, value: a
\* NIPRemote; parsed: what from_str returned; got: what get_hash returned
Address(want, text, value) ==
    Blank @@ [want |-> want, text |-> text, value |-> value, parsed |-> None,
              got |-> None]

InitRemote ==
    /\ git = [h \in Hashes |-> TheRepo(h)]
    /\ refs = EmptyMap
    /\ objects = EmptyMap
    /\ prev_idx_hash = None
    /\ odb = [r \in Repos |-> {}]
    /\ localrefs = [r \in Repos |-> EmptyMap]
    /\ ipfs = [raw |-> {}, obj |-> {}]
    /\ nfail = 0
    /\ \/ \E text \in RemoteTexts : last = Address("parse", text, NewIPFS)
       \/ \E value \in RemoteValues : last = Address("render", <<>>, value)

RenderRemote ==
    /\ last.op = "init" /\ last.want = "render"
    /\ last' = [last EXCEPT !.op = "to_string", !.text = to_string(last.value)]
    /\ UNCHANGED <<git, refs, objects, prev_idx_hash, odb, localrefs, ipfs, nfail>>

ParseRemote ==
    /\ \/ last.op = "init" /\ last.want = "parse"
       \/ last.op = "to_string"
    /\ last' = [last EXCEPT !.op = "from_str", !.parsed = from_str(last.text)]
    /\ UNCHANGED <<git, refs, objects, prev_idx_hash, odb, localrefs, ipfs, nfail>>

\* get_hash of the value the caller holds, the one it built or the one
\* from_str returned; value: the remote it was called on
GetHash ==
    /\ \/ last.op = "init" /\ last.want = "render"
       \/ last.op = "from_str" /\ last.parsed[1]
    /\ \E remote \in {IF last.op = "init" THEN last.value ELSE last.parsed[2]} :
         last' = [last EXCEPT !.op = "get_hash", !.value = remote,
                              !.got = get_hash(remote)]
    /\ UNCHANGED <<git, refs, objects, prev_idx_hash, odb, localrefs, ipfs, nfail>>

NextRemote == RenderRemote \/ ParseRemote \/ GetHash

SpecRemote == InitRemote /\ [][NextRemote]_vars

(***************************************************************************)
(* The two walks, one call at a time                                       *)
(***************************************************************************)
\* The calls of a walk that are still to be made, the next one first: a call
\* for an object, the note of a submodule tip, or a lookup that fails
Visit(oid) == [k |-> "visit", id |-> oid]
Sub(oid) == [k |-> "sub", id |-> oid]
Fail == [k |-> "fail", id |-> NoHash]

RECURSIVE Ascending(_)
Ascending(S) == IF S = {} THEN <<>> ELSE <<Min(S)>> \o Ascending(S \ {Min(S)})

Visits(oids) == [i \in DOMAIN oids |-> Visit(oids[i])]

\* A walk that counts an object only once the calls for its references
\* have returned
counted_on_return(for_fetch_state, oid) == for_fetch_state

\* for_fetch_state.insert(oid), before NIPObject::ipfs_get and the calls for
\* the references
counted(for_fetch_state, oid) == for_fetch_state \cup {oid}

\* the order in which enumerate_for_fetch calls itself for the references of
\* an object: the tree and then the parents, the target, the entries
fetch_calls(metadata) ==
    CASE metadata.variant = "Commit" ->
           <<Visit(metadata.tree_git_hash)>>
             \o Visits(Ascending(metadata.parent_git_hashes))
      [] metadata.variant = "Tag" -> <<Visit(metadata.target_git_hash)>>
      [] metadata.variant = "Tree" -> Visits(Ascending(metadata.entry_git_hashes))
      [] metadata.variant = "Blob" -> <<>>

\* One call of enumerate_for_fetch, up to its first call of itself or its
\* return.  w.stack: the calls to be made; w.state: for_fetch_state.  A `?`
\* that fails ends every call that is open.
enter_fetch(self_objects, store, db, w) ==
    LET oid == Head(w.stack).id
        returned == [w EXCEPT !.stack = Tail(w.stack)]
        failed == [w EXCEPT !.stack = <<>>, !.err = TRUE]
    IN  IF present_locally(db, oid) THEN returned
        ELSE IF in_state(w.state, oid) THEN returned
        ELSE IF ~contains_key(self_objects, oid) THEN failed
        ELSE IF is_submodule_tip(self_objects[oid]) THEN returned
        ELSE LET got == ipfs_get(store, self_objects[oid]) IN
             IF ~got[1] THEN [failed EXCEPT !.state = counted(w.state, oid)]
             ELSE [w EXCEPT !.state = counted(w.state, oid),
                            !.stack = fetch_calls(got[2].metadata) \o Tail(w.stack)]

\* for parent in commit.parents(): the parents up to the first one the
\* repository cannot load
RECURSIVE loadable_parents(_, _, _)
loadable_parents(db, ps, i) ==
    IF i > Len(ps) THEN <<>>
    ELSE IF ps[i] \notin db THEN <<>>
    ELSE <<Visit(ps[i])>> \o loadable_parents(db, ps, i + 1)

\* for entry in tree.into_iter(): a submodule tip is noted, any other entry
\* is loaded (entry.to_object(&repo)?) and walked
RECURSIVE entry_calls(_, _)
entry_calls(db, es) ==
    IF es = {} THEN <<>>
    ELSE LET entry == CHOOSE e \in es : \A f \in es : e.id <= f.id IN
         IF entry.kind = "commit"
         THEN <<Sub(entry.id)>> \o entry_calls(db, es \ {entry})
         ELSE IF entry.id \notin db THEN <<Fail>>
         ELSE <<Visit(entry.id)>> \o entry_calls(db, es \ {entry})

\* One call of enumerate_for_push, up to its first call of itself or its
\* return.  w.state: for_push_state; w.subs: submodule_state.
enter_push(self_objects, db, w) ==
    LET item == Head(w.stack)
        obj == item.id
        returned == [w EXCEPT !.stack = Tail(w.stack)]
        failed == [w EXCEPT !.stack = <<>>, !.err = TRUE]
        into(calls) == [w EXCEPT !.state = @ \cup {obj},
                                 !.stack = calls \o Tail(w.stack)]
    IN  IF item.k = "fail" THEN failed
        ELSE IF item.k = "sub"
        THEN [returned EXCEPT !.subs = @ \cup {obj}]
        ELSE IF already_in_index(self_objects, obj) THEN returned
        ELSE IF obj \in w.state THEN returned
        ELSE CASE git[obj].kind = "commit" ->
                    IF git[obj].tree \notin db
                    THEN [failed EXCEPT !.state = @ \cup {obj}]
                    ELSE into(<<Visit(git[obj].tree)>>
                                \o loadable_parents(db, git[obj].parents, 1))
               [] git[obj].kind = "tree" -> into(entry_calls(db, git[obj].entries))
               [] git[obj].kind = "blob" -> into(<<>>)
               [] git[obj].kind = "tag" ->
                    IF git[obj].target \notin db
                    THEN [failed EXCEPT !.state = @ \cup {obj}]
                    ELSE into(<<Visit(git[obj].target)>>)

\* The hashes of the indexes walked for a fetch
MaxWalk == 2
WalkHashes == 1..MaxWalk

\* The metadata an index may hold for an object: any hash of the index as
\* tree, parent, target or entry, the hash of the object itself included
CycMetas ==
    {Metadata("Blob", {}, NoHash, NoHash, {})}
    \cup {Metadata("Tag", {}, NoHash, t, {}) : t \in WalkHashes}
    \cup {Metadata("Commit", {p}, t, NoHash, {}) : p \in WalkHashes, t \in WalkHashes}
    \cup {Metadata("Tree", {}, NoHash, NoHash, {e}) : e \in WalkHashes}

\* What there is for one hash: no entry in the index, the submodule marker,
\* an object the local repository has, an object the content store has lost,
\* or a stored object with its metadata
Holdings ==
    {[st |-> s, md |-> Metadata("Blob", {}, NoHash, NoHash, {})] :
        s \in {"absent", "marker", "local", "lost"}}
    \cup {[st |-> "stored", md |-> md] : md \in CycMetas}

StoredAs(h, md) == Encode(NIPObject(upload_odb_obj(h), md))

\* the refs a push may start from
WalkStarts == {5, 6, 8}

\* a walk about to make its first call
Walking(walk, start) ==
    Blank @@ [walk |-> walk, stack |-> <<Visit(start)>>, state |-> {}, err |-> FALSE]

\* A fetch walk of an index with any metadata into repository B, or a push
\* walk from repository A into an index that has some of its objects
InitWalk ==
    /\ git = [h \in Hashes |-> TheRepo(h)]
    /\ refs = EmptyMap
    /\ prev_idx_hash = None
    /\ localrefs = [r \in Repos |->
                      IF r = "A" THEN (Dev :> 8) @@ (Master :> 5) @@ (TagV1 :> 6)
                      ELSE EmptyMap]
    /\ nfail = 0
    /\ \/ \E f \in [WalkHashes -> Holdings] :
            /\ objects = [h \in {x \in WalkHashes : f[x].st # "absent"} |->
                            IF f[h].st = "marker" THEN SUBMODULE_TIP_MARKER
                            ELSE Link(StoredAs(h, f[h].md))]
            /\ ipfs = [raw |-> {},
                       obj |-> {StoredAs(h, f[h].md) :
                                  h \in {x \in WalkHashes :
                                           f[x].st \in {"stored", "local"}}}]
            /\ odb = [r \in Repos |->
                        IF r = "A" THEN Hashes \ {7}
                        ELSE {x \in WalkHashes : f[x].st = "local"}]
            /\ last = Walking("fetch", Min(WalkHashes))
       \/ \E indexed \in SUBSET (Hashes \ {7}), lost \in LostObjects,
             start \in WalkStarts :
            /\ objects = [h \in indexed |-> nip_object_hash(h)]
            /\ ipfs = [raw |-> {}, obj |-> {}]
            /\ odb = [r \in Repos |-> IF r = "A" THEN (Hashes \ {7}) \ lost ELSE {}]
            /\ last = Walking("push", start)

\* The list of calls to be made is kept to MaxPending entries in the model; a
\* walk that counts every object once stays below it
MaxPending == NumHashes

\* the walk is over when no call is left to be made
Stepped(w) == [w EXCEPT !.op = IF w.stack = <<>> THEN "walked" ELSE "walk"]

FetchCall ==
    /\ last.op \in {"init", "walk"} /\ last.walk = "fetch"
    /\ Len(last.stack) <= MaxPending
    /\ last' = Stepped(enter_fetch(objects, ipfs, odb["B"], last))
    /\ UNCHANGED <<git, refs, objects, prev_idx_hash, odb, localrefs, ipfs, nfail>>

PushCall ==
    /\ last.op \in {"init", "walk"} /\ last.walk = "push"
    /\ Len(last.stack) <= MaxPending
    /\ last' = Stepped(enter_push(objects, odb["A"], last))
    /\ UNCHANGED <<git, refs, objects, prev_idx_hash, odb, localrefs, ipfs, nfail>>

NextWalk == FetchCall \/ PushCall

\* A call that can be made is made: the walk is one thread that nothing holds up
SpecWalk == InitWalk /\ [][NextWalk]_vars /\ WF_vars(NextWalk)

(***************************************************************************)
(* Two callers on one published name                                       *)
(***************************************************************************)
\* A name that keeps the record it has
name_kept(names, name, self_buf) ==
    IF name \in DOMAIN names THEN names ELSE Insert(names, name, self_buf)

\* ipfs.name_publish(&new_hash, ..): the name resolves to the new index from
\* now on, whatever it resolved to before
name_publish(names, name, self_buf) == Insert(names, name, self_buf)

\* The index published under the name before either caller starts: the
\* branch master at the first commit of the repository
Published ==
    NIPIndex(Master :> 3, [h \in {1, 2, 3} |-> nip_object_hash(h)], None)

\* pc: where each caller is (load, push, publish, done, or failed); loaded:
\* the encoded index it loaded; pushed: the ref it pushed and its hash;
\* order: the callers in the order of their publishes
Racing ==
    Blank @@ [pc |-> [c \in Repos |-> "load"],
              loaded |-> [c \in Repos |-> None],
              pushed |-> [c \in Repos |-> <<<<>>, NoHash>>],
              order |-> <<>>]

\* Each caller has a clone of the repository and an index of its own; the
\* content store and the name are shared
InitRace ==
    /\ git = [h \in Hashes |-> TheRepo(h)]
    /\ refs = [c \in Repos |-> EmptyMap]
    /\ objects = [c \in Repos |-> EmptyMap]
    /\ prev_idx_hash = [c \in Repos |-> None]
    /\ odb = [c \in Repos |-> Hashes \ {7}]
    /\ localrefs = [c \in Repos |-> (Dev :> 8) @@ (Master :> 5) @@ (TagV1 :> 6)]
    /\ ipfs = [raw |-> {git[h].data : h \in {1, 2, 3}},
               obj |-> {Encode(from_git(h)) : h \in {1, 2, 3}},
               idx |-> {Encode(Published)},
               name |-> "self" :> Encode(Published)]
    /\ nfail = 0
    /\ last = Racing

\* NIPIndex::from_nip_remote of the name
RaceLoad(c) ==
    /\ last.pc[c] = "load"
    /\ \E out \in {from_nip_remote(ExistingIPNS("self"), ipfs)} :
        /\ refs' = [refs EXCEPT ![c] = IF out[1] THEN out[2].refs ELSE @]
        /\ objects' = [objects EXCEPT ![c] = IF out[1] THEN out[2].objects ELSE @]
        /\ prev_idx_hash' = [prev_idx_hash EXCEPT
                               ![c] = IF out[1] THEN out[2].prev_idx_hash ELSE @]
        /\ last' = [last EXCEPT !.op = "load", !.repo = c,
                                !.res = IF out[1] THEN "Ok" ELSE out[2],
                                !.pc[c] = IF out[1] THEN "push" ELSE "failed",
                                !.loaded[c] = ipfs.name["self"]]
        /\ UNCHANGED <<git, odb, localrefs, ipfs, nfail>>

\* push_ref_from_str, not forced, on the caller's own index
RacePush(c, ref_src, ref_dst) ==
    /\ last.pc[c] = "push"
    /\ \E out \in {push_ref_from_str(refs[c], objects[c], ipfs, odb[c], localrefs[c],
                                     ref_src, ref_dst, FALSE, NetOk)} :
        /\ refs' = [refs EXCEPT ![c] = out.refs]
        /\ objects' = [objects EXCEPT ![c] = out.objects]
        /\ ipfs' = out.ipfs
        /\ last' = [last EXCEPT !.op = "push", !.repo = c, !.src = ref_src,
                                !.dst = ref_dst, !.res = out.res,
                                !.pc[c] = IF out.res = "Ok" THEN "publish" ELSE "failed",
                                !.pushed[c] = <<ref_dst, out.obj>>]
        /\ UNCHANGED <<git, prev_idx_hash, odb, localrefs, nfail>>

\* NIPIndex::ipfs_add with the name as prev_remote
RacePublish(c) ==
    /\ last.pc[c] = "publish"
    /\ \E out \in {ipfs_add(refs[c], objects[c], prev_idx_hash[c],
                            ExistingIPNS("self"), ipns_deref(ipfs, "self")[2])} :
        /\ prev_idx_hash' = [prev_idx_hash EXCEPT ![c] = out.prev_idx_hash]
        /\ ipfs' = IF out.res # "Ok" THEN ipfs
                   ELSE [ipfs EXCEPT
                            !.idx = @ \cup {out.self_buf},
                            !.name = IF out.publish
                                     THEN name_publish(@, "self", out.self_buf)
                                     ELSE @]
        /\ last' = [last EXCEPT !.op = "publish", !.repo = c, !.res = out.res,
                                !.ret = out.ret,
                                !.pc[c] = IF out.res = "Ok" THEN "done" ELSE "failed",
                                !.order = IF out.res = "Ok" THEN Append(@, c) ELSE @]
        /\ UNCHANGED <<git, refs, objects, odb, localrefs, nfail>>

\* The callers take their steps in any order
NextRace ==
    \/ \E c \in Repos : RaceLoad(c)
    \/ \E c \in Repos, ref_src \in RefNames, ref_dst \in DstRefs :
          RacePush(c, ref_src, ref_dst)
    \/ \E c \in Repos : RacePublish(c)

SpecRace == InitRace /\ [][NextRace]_vars

(***************************************************************************)
(* C1                                                                      *)
(***************************************************************************)
\* C1: in every state reached from the empty index by pushes, deletions and
\* publications that all succeed or fail cleanly, every ref target is a key of
\* objects, and every hash the metadata of a non-marker entry refers to
\* (tree, parents, tag target, tree entries) is a key of objects too.
C1_IndexClosed ==
    /\ \A name \in DOMAIN refs : refs[name] \in DOMAIN objects
    /\ \A h \in Linked :
          /\ ipfs_get(ipfs, objects[h])[1]
          /\ MetadataHashes(ipfs_get(ipfs, objects[h])[2].metadata)
                \subseteq DOMAIN objects

\* A published index with a ref, a tag, trees with entries and a marker entry
C1_Witness ==
    /\ last.op = "publish" /\ last.res = "Ok"
    /\ prev_idx_hash # None
    /\ Cardinality(DOMAIN refs) = 2
    /\ \E h \in DOMAIN objects : ~IsLink(objects[h])
    /\ \E h \in Linked : git[h].kind = "tag"

(***************************************************************************)
(* C2                                                                      *)
(***************************************************************************)
\* C2: when a push of a root into the empty index has just succeeded and a
\* repository whose object database is empty then fetches the pushed ref, the
\* fetch succeeds and the database holds exactly the objects reachable from
\* the root (submodule tips left out).
C2_RoundTrip ==
    [][(/\ last.op = "push" /\ last.res = "Ok"
        /\ DOMAIN refs = {last.dst}
        /\ DOMAIN objects = last.objs \cup last.subs
        /\ odb["B"] = {}
        /\ last'.op = "fetch" /\ last'.repo = "B" /\ last'.dst = last.dst)
       => (/\ last'.res = "Ok"
           /\ odb'["B"] = Reachable(last.obj))]_vars

(***************************************************************************)
(* C3                                                                      *)
(***************************************************************************)
\* C3: a push that succeeds on the empty index, of a root from which no tree
\* with a submodule entry is reachable, leaves as keys of objects exactly the
\* objects reachable from the root, each under the content link of its
\* uploaded NIPObject, and leaves refs = {dst_ref -> root}.
C3_PushToEmpty ==
    [][(/\ objects = EmptyMap /\ refs = EmptyMap
        /\ last'.op = "push" /\ last'.res = "Ok"
        /\ SubmoduleTips(Reachable(last'.obj)) = {})
       => (/\ DOMAIN objects' = Reachable(last'.obj)
           /\ \A h \in DOMAIN objects' :
                 /\ IsLink(objects'[h])
                 /\ objects'[h] = nip_object_hash(h)
                 /\ objects'[h][2] \in ipfs'.obj
           /\ refs' = (last'.dst :> last'.obj))]_vars

\* The tag 6 of commit 8 was pushed to the empty index: tag, two commits that
\* share a tree, the tree and its blob
C3_Witness ==
    /\ last.op = "push" /\ last.res = "Ok" /\ last.obj = 6
    /\ last.objs = {1, 2, 3, 6, 8}
    /\ last.subs = {}
    /\ DOMAIN objects = last.objs
    /\ DOMAIN refs = {last.dst}

(***************************************************************************)
(* C4                                                                      *)
(***************************************************************************)
\* C4: for every index and object database reached and every root in the
\* database, once the hashes of a push walk's object set are inserted into
\* objects, a second push walk from the same root has an empty object set.
C4_WalkIdempotent ==
    \A r \in Repos : \A root \in odb[r] :
        LET first == enumerate_for_push(objects, odb[r], root, PushStart)
            second == enumerate_for_push(push_git_objects(objects, first.push),
                                         odb[r], root, PushStart)
        IN  ~first.err => second.push = {} /\ ~second.err

\* An index that already holds objects, and a root whose first walk still
\* finds objects to push and a submodule tip
C4_Witness ==
    /\ objects # EmptyMap
    /\ \E root \in odb["A"] :
          LET first == enumerate_for_push(objects, odb["A"], root, PushStart)
          IN  /\ ~first.err
              /\ Cardinality(first.push) >= 2
              /\ first.subs # {}

C6_FetchSet ==
    \A r \in Repos : \A oid \in Hashes :
        \A x \in enumerate_for_fetch(objects, ipfs, odb[r], oid, FetchStart).fetch :
            /\ x \notin odb[r]
            /\ x \in DOMAIN objects
            /\ objects[x] # SUBMODULE_TIP_MARKER

\* A fetch walk for B that collects a tree whose entries include a submodule
\* tip and an object B already has
C6_Witness ==
    \E oid \in DOMAIN objects :
        LET walk == enumerate_for_fetch(objects, ipfs, odb["B"], oid, FetchStart)
        IN  /\ ~walk.err
            /\ \E x \in walk.fetch :
                  LET refd == MetadataHashes(ipfs_get(ipfs, objects[x])[2].metadata)
                  IN  /\ \E y \in refd \cap DOMAIN objects :
                            objects[y] = SUBMODULE_TIP_MARKER
                      /\ refd \cap odb["B"] # {}

(***************************************************************************)
(* C7                                                                      *)
(***************************************************************************)
\* What the index says an object refers to
IndexRefs(h) ==
    IF h \in Linked /\ ipfs_get(ipfs, objects[h])[1]
    THEN MetadataHashes(ipfs_get(ipfs, objects[h])[2].metadata)
    ELSE {}

RECURSIVE IndexClosure(_)
IndexClosure(S) ==
    LET T == S \cup UNION {IndexRefs(h) : h \in S}
    IN  IF T = S THEN S ELSE IndexClosure(T)

\* The target and its ancestors: the commits of the index the target leads to
Ancestry(target) ==
    {h \in IndexClosure({target}) \cap Linked :
        /\ ipfs_get(ipfs, objects[h])[1]
        /\ ipfs_get(ipfs, objects[h])[2].metadata.variant = "Commit"}

\* A non-forced push to a ref of the index whose source ref resolves, during
\* which no request fails and the fetch walk of the check meets no error
CheckedPush ==
    /\ last'.op = "push" /\ ~last'.force /\ last'.net = "ok"
    /\ last'.obj # NoHash
    /\ last'.dst \in DOMAIN refs
    /\ ~enumerate_for_fetch(objects, ipfs, odb[last'.repo], refs[last'.dst],
                            FetchStart).err

\* C7 as stated: a non-forced push to an existing ref fails with FetchFirst
\* whenever some commit of the target's ancestry is missing from the local
\* object database.
C7_Original ==
    [][(/\ CheckedPush
        /\ \E h \in Ancestry(refs[last'.dst]) : h \notin odb[last'.repo])
       => last'.res = "FetchFirst"]_vars

\* C7, amended: a non-forced push to an existing ref fails with FetchFirst
\* when the target is missing from the local object database and indexed
\* under a content link, and does not fail with FetchFirst when the target is
\* present locally, whatever else of its ancestry is missing.
C7_StalenessCheck ==
    [][CheckedPush =>
         /\ (refs[last'.dst] \notin odb[last'.repo] /\ refs[last'.dst] \in Linked)
               => last'.res = "FetchFirst"
         /\ refs[last'.dst] \in odb[last'.repo] => last'.res # "FetchFirst"]_vars

\* B's non-forced push was refused: the target of the ref is not in B's
\* object database
C7_Witness ==
    /\ last.op = "push" /\ ~last.force /\ last.res = "FetchFirst"
    /\ last.repo = "B"
    /\ refs[last.dst] \in Linked \ odb["B"]

(***************************************************************************)
(* C8                                                                      *)
(***************************************************************************)
\* C8: a forced push never ends with FetchFirst, and when it succeeds
\* refs[dst_ref] is the hash the source ref resolves to in the pushing
\* repository.
C8_ForcedPush ==
    (last.op = "push" /\ last.force) =>
        /\ last.res # "FetchFirst"
        /\ last.res = "Ok" =>
              /\ last.dst \in DOMAIN refs
              /\ last.src \in DOMAIN localrefs[last.repo]
              /\ refs[last.dst] = localrefs[last.repo][last.src]

\* B's forced push succeeded while the index holds objects that are not in
\* B's object database
C8_Witness ==
    /\ last.op = "push" /\ last.force /\ last.res = "Ok"
    /\ last.repo = "B"
    /\ Linked \ odb["B"] # {}

(***************************************************************************)
(* C9                                                                      *)
(***************************************************************************)
\* C9: push_ref_from_str with an empty source ref succeeds whether or not
\* dst_ref is in refs, removes dst_ref from refs and nothing else, leaves
\* objects as it is and uploads nothing.
C9_Delete ==
    [][last'.op = "delete" =>
         /\ last'.res = "Ok"
         /\ DOMAIN refs' = DOMAIN refs \ {last'.dst}
         /\ \A name \in DOMAIN refs' : refs'[name] = refs[name]
         /\ objects' = objects
         /\ ipfs' = ipfs]_vars

\* A ref was deleted from an index that keeps another ref and its objects
C9_Witness ==
    /\ last.op = "delete" /\ last.res = "Ok"
    /\ last.dst \notin DOMAIN refs
    /\ refs # EmptyMap
    /\ Linked # {}

(***************************************************************************)
(* C10                                                                     *)
(***************************************************************************)
\* C10: no step removes a key of objects, and no step removes or replaces an
\* entry that holds a content link; in particular none replaces it by the
\* marker.
C10_AppendOnly ==
    [][\A h \in DOMAIN objects :
          /\ h \in DOMAIN objects'
          /\ IsLink(objects[h]) => objects'[h] = objects[h]]_vars

(***************************************************************************)
(* C11                                                                     *)
(***************************************************************************)
\* The index records for oid a NIPObject whose raw data, written to an
\* object database, hashes to something else
Mismatched(oid) ==
    /\ oid \in Linked
    /\ ipfs_get(ipfs, objects[oid])[1]
    /\ write_raw_data(ipfs, ipfs_get(ipfs, objects[oid])[2])[1]
    /\ write_raw_data(ipfs, ipfs_get(ipfs, objects[oid])[2])[2] # oid

\* C11: a fetch whose fetch set holds an object that is not present locally
\* and whose raw data hashes to something else than the hash the index
\* records it under fails, and sets no ref.
C11_Mismatch ==
    [][(/\ last'.op = "fetch"
        /\ \E oid \in last'.oids \ odb[last'.repo] : Mismatched(oid))
       => (last'.res = "Err" /\ localrefs' = localrefs)]_vars

\* A fetch failed over such an object: its raw data was written under the
\* hash it really has
C11_Witness ==
    /\ last.op = "fetch" /\ last.res = "Err"
    /\ \E oid \in last.oids :
          /\ Mismatched(oid)
          /\ write_raw_data(ipfs, ipfs_get(ipfs, objects[oid])[2])[2]
                \in odb[last.repo] \ last.oids

(***************************************************************************)
(* C12                                                                     *)
(***************************************************************************)
\* The hashes the walk from git_hash into repository r comes to: git_hash and
\* what the metadata of the objects in its fetch set names
Reached(r, git_hash) ==
    {git_hash} \cup UNION {IndexRefs(h) :
        h \in enumerate_for_fetch(objects, ipfs, odb[r], git_hash, FetchStart).fetch}

\* The hashes that are neither present in r nor a key of the index
Unknown(r) == Hashes \ (odb[r] \cup DOMAIN objects)

\* C12: the walk fails when it is called on a hash that is neither present
\* locally, nor in the fetch set, nor a key of the index, and leaves the fetch
\* set as it was; a walk that comes to such a hash fails without the hash in
\* its fetch set.
C12_NotIndexed ==
    \A r \in Repos :
        /\ \A oid \in Unknown(r), x \in Hashes :
              \A fetch \in {{}, {x} \ {oid}} :
                 LET st == [FetchStart EXCEPT !.fetch = fetch]
                     out == enumerate_for_fetch(objects, ipfs, odb[r], oid, st)
                 IN  out.err /\ out.fetch = fetch
        /\ \A git_hash \in Hashes :
              LET walk == enumerate_for_fetch(objects, ipfs, odb[r], git_hash, FetchStart)
              IN  Reached(r, git_hash) \cap Unknown(r) # {}
                     => walk.err /\ walk.fetch \cap Unknown(r) = {}

\* A fetch failed whose walk took objects for fetching and then came to a hash
\* the index has no entry for
C12_Witness ==
    /\ last.op = "fetch" /\ last.res = "Err"
    /\ (Reached(last.repo, last.hash) \ {last.hash}) \cap Unknown(last.repo) # {}
    /\ enumerate_for_fetch(objects, ipfs, odb[last.repo], last.hash, FetchStart).err

(***************************************************************************)
(* C13                                                                     *)
(***************************************************************************)
\* No hash occurs twice in a log
Once(log) == Cardinality({log[i] : i \in DOMAIN log}) = Len(log)

\* The logs of one fetch_to_ref_from_str of git_hash into repository r, one
\* for each thing the content store and the loop's order may do
FetchLogs(r, git_hash) ==
    {fetch_downloads(objects, ipfs, odb[r], git_hash, net) :
        net \in FetchOrders(r, git_hash)}

\* C13 as claimed: within one push_ref no encoded NIPObject is uploaded twice,
\* and within one fetch_ref no encoded NIPObject is downloaded twice.
C13_Original ==
    [][/\ last'.op = "push" => Once(upload_log(objects, last'.objs))
       /\ last'.op = "fetch" =>
             \A log \in FetchLogs(last'.repo, last'.hash) : Once(log)]_vars

\* C13: within one push_ref no encoded NIPObject is uploaded twice.  Within
\* one fetch_ref the walk downloads the encoded NIPObject of a hash at most
\* once and the loop of fetch_nip_objects downloads it at most once more, both
\* for the hashes of the fetch set only; the raw data of a hash is downloaded
\* at most once.
C13_AtMostOnce ==
    [][/\ last'.op = "push" => Once(upload_log(objects, last'.objs))
       /\ last'.op = "fetch" =>
             \A walk \in {enumerate_for_fetch(objects, ipfs, odb[last'.repo],
                                              last'.hash, FetchStart)} :
                /\ Once(walk.gets)
                /\ \A loop \in {fetch_nip_objects(objects, ipfs, odb[last'.repo],
                                                  walk.fetch)} :
                      Once(loop.gets) /\ Once(loop.cats)
                /\ \A log \in FetchLogs(last'.repo, last'.hash) :
                      /\ SubSeq(log, 1, Len(walk.gets)) = walk.gets
                      /\ Once(SubSeq(log, Len(walk.gets) + 1, Len(log)))
                      /\ {log[i] : i \in DOMAIN log} \subseteq walk.fetch]_vars

\* A fetch has downloaded a blob that two trees of its fetch set list
C13_Witness ==
    last.op = "fetch" /\ last.res = "Ok" /\ {1, 2, 4} \subseteq last.oids

(***************************************************************************)
(* C14                                                                     *)
(***************************************************************************)
\* The address of the index a caller holding remote loads, None for a
\* placeholder and for no remote
LoadedFrom(remote) ==
    IF remote = None \/ remote \in {NewIPFS, NewIPNS} THEN None
    ELSE IF remote[1] = "ExistingIPFS" THEN Link(remote[2])
    ELSE ipns_deref(ipfs, remote[2])[2]

\* The encoded indexes met from buf on by loading each and following its
\* prev_idx_hash, ended by "lost" where a load fails
RECURSIVE ChainFrom(_)
ChainFrom(buf) ==
    LET index == from_nip_remote(ExistingIPFS(buf), ipfs) IN
    IF ~index[1] THEN <<"lost">>
    ELSE IF index[2].prev_idx_hash = None THEN <<buf>>
    ELSE <<buf>> \o ChainFrom(parse(index[2].prev_idx_hash)[2][2])

Reverse(seq) == [i \in DOMAIN seq |-> seq[Len(seq) + 1 - i]]

\* C14: every publish records, as prev_idx_hash of the published index, the
\* address of the index the caller loaded from (none for a placeholder or no
\* remote); following prev_idx_hash from the latest published index leads
\* through all the indexes the caller published before, each once, latest
\* first, and ends at one with no predecessor.
C14_PublishChain ==
    /\ [][(last'.op = "round" /\ last'.res = "Ok") =>
             /\ prev_idx_hash' = LoadedFrom(last.remote)
             /\ from_slice(last'.pubs[Len(last'.pubs)])[2].prev_idx_hash
                   = LoadedFrom(last.remote)]_vars
    /\ [](last.pubs # <<>> =>
             ChainFrom(last.pubs[Len(last.pubs)]) = Reverse(last.pubs))

\* Three rounds are published, the last through the name, with a ref in it
C14_Witness ==
    /\ Len(last.pubs) >= 3
    /\ last.res = "Ok" /\ last.prev = ExistingIPNS("self")
    /\ refs # EmptyMap
    /\ ChainFrom(last.pubs[Len(last.pubs)]) = Reverse(last.pubs)

(***************************************************************************)
(* C15                                                                     *)
(***************************************************************************)
\* C15: a publish returns a name remote exactly when the previous remote is
\* NewIPNS or ExistingIPNS, and a content remote when it is NewIPFS,
\* ExistingIPFS or absent; the name is pointed at the published index in the
\* first case and left alone in the second.
C15_ReturnedRemote ==
    [][(last'.op = "round" /\ last'.res = "Ok") =>
          LET published == last'.pubs[Len(last'.pubs)] IN
          IF last.remote # None /\ last.remote[1] \in {"NewIPNS", "ExistingIPNS"}
          THEN /\ last'.ret[1] = "ExistingIPNS"
               /\ ipfs'.name = Insert(ipfs.name, last'.ret[2], published)
          ELSE /\ last'.ret = ExistingIPFS(published)
               /\ ipfs'.name = ipfs.name]_vars

\* An index was published through the name a second time, and the name
\* resolves to it
C15_Witness ==
    /\ last.op = "round" /\ last.res = "Ok"
    /\ last.prev = ExistingIPNS("self")
    /\ ipfs.name["self"] = last.pubs[Len(last.pubs)]
    /\ Len(last.pubs) >= 2

(***************************************************************************)
(* C16                                                                     *)
(***************************************************************************)
\* The trees the index records, with the metadata the content store returns
IndexedTrees ==
    {h \in Linked : /\ ipfs_get(ipfs, objects[h])[1]
                    /\ ipfs_get(ipfs, objects[h])[2].metadata.variant = "Tree"}

entry_git_hashes(h) == ipfs_get(ipfs, objects[h])[2].metadata.entry_git_hashes

\* C16 as claimed: the Tree metadata of an object built from a tree holds no
\* entry whose kind is commit.
C16_Original ==
    \A h \in IndexedTrees :
        \A e \in git[h].entries : e.kind = "commit" => e.id \notin entry_git_hashes(h)

\* C16: the Tree metadata of an object built from a tree holds the hash of
\* every entry of the tree, the entries whose kind is commit (submodule tips)
\* included.
C16_AllEntries ==
    \A h \in IndexedTrees : entry_git_hashes(h) = {e.id : e \in git[h].entries}

\* The tree with two submodule tips is pushed, and its metadata names them
C16_Witness ==
    /\ 4 \in IndexedTrees
    /\ {3, 7} \subseteq entry_git_hashes(4)
    /\ \A e \in git[4].entries : e.id \in {3, 7} => e.kind = "commit"

(***************************************************************************)
(* C17                                                                     *)
(***************************************************************************)
\* The walk from git_hash into repository r and the loop over its fetch set
\* meet no error
FetchedAll(r, git_hash) ==
    \E walk \in {enumerate_for_fetch(objects, ipfs, odb[r], git_hash, FetchStart)} :
        /\ ~walk.err
        /\ ~fetch_nip_objects(objects, ipfs, odb[r], walk.fetch).err

\* C17: once a fetch has fetched all objects (no download failed, the walk
\* and the loop met no error) and the tip is in the local object database,
\* the local ref is set to the tip exactly when the tip is a commit and the
\* ref name does not start with refs/tags; for a commit under
\* refs/tags and for a tag no ref is set and the call succeeds; for a tree or
\* a blob the call fails and no ref is set.
C17_LocalRef ==
    [][(/\ last'.op = "fetch" /\ last'.net # "download"
        /\ FetchedAll(last'.repo, last'.hash)
        /\ last'.hash \in odb'[last'.repo])
       => LET r == last'.repo
              kind == git[last'.hash].kind
              set == [localrefs EXCEPT ![r] = Insert(@, last'.dst, last'.hash)]
          IN  /\ (kind = "commit" /\ ~starts_with_refs_tags(last'.dst))
                    => (last'.res = "Ok" /\ localrefs' = set)
              /\ (kind = "commit" /\ starts_with_refs_tags(last'.dst))
                    => (last'.res = "Ok" /\ localrefs' = localrefs)
              /\ kind = "tag" => (last'.res = "Ok" /\ localrefs' = localrefs)
              /\ kind \in {"tree", "blob"}
                    => (last'.res = "Err" /\ localrefs' = localrefs)
              /\ localrefs' # localrefs
                    => (kind = "commit" /\ ~starts_with_refs_tags(last'.dst))]_vars

\* A commit was fetched for a name under refs/tags into the repository that
\* had none of its objects: the call succeeded and no ref is set
C17_Witness ==
    /\ last.op = "fetch" /\ last.res = "Ok" /\ last.repo = "B"
    /\ last.dst = TagV1 /\ git[last.hash].kind = "commit"
    /\ last.hash \in last.oids
    /\ localrefs["B"] = EmptyMap

(***************************************************************************)
(* C18                                                                     *)
(***************************************************************************)
\* The version a caller of gen_nip_header asks for
Asked(version) == IF version = None THEN NIP_PROTOCOL_VERSION ELSE version[2]

\* C18: the header made for a version is 8 bytes, the magic and then the
\* version as a big-endian 16-bit number, the current version when none is
\* given; parsing it returns the version.
C18_HeaderRoundTrip ==
    last.want = "gen" =>
        /\ last.op \in {"gen", "parse"} =>
              /\ Len(last.header) = 8
              /\ \A i \in 1..6 : last.header[i] = NIP_MAGIC[i]
              /\ last.header[7] \in 0..255 /\ last.header[8] \in 0..255
              /\ last.header[7] * 256 + last.header[8] = Asked(last.version)
        /\ last.op = "parse" => last.parsed = <<TRUE, Asked(last.version)>>

\* A header made for a version whose two bytes differ was parsed, and one
\* made for no version
C18_Witness ==
    /\ last.want = "gen" /\ last.op = "parse"
    /\ \/ last.version = Some(258) /\ last.header[7] = 1 /\ last.header[8] = 2
       \/ last.version = None /\ last.parsed = <<TRUE, NIP_PROTOCOL_VERSION>>

(***************************************************************************)
(* C19                                                                     *)
(***************************************************************************)
\* C19: parse_nip_header fails on every input shorter than 8 bytes and on
\* every input whose first 6 bytes are not the magic, and succeeds on every
\* input of 8 bytes or more that begins with the magic, whatever follows it.
C19_HeaderParse ==
    last.op = "parse" =>
        (last.parsed[1] <=> /\ Len(last.header) >= 8
                            /\ \A i \in 1..6 : last.header[i] = NIP_MAGIC[i])

\* An input of 8 bytes or more whose magic has one wrong byte was refused
C19_Witness ==
    /\ last.op = "parse" /\ last.want = "parse"
    /\ Len(last.header) >= 8
    /\ Cardinality({i \in 1..6 : last.header[i] # NIP_MAGIC[i]}) = 1
    /\ last.header[7] * 256 + last.header[8] = NIP_PROTOCOL_VERSION
    /\ ~last.parsed[1]

(***************************************************************************)
(* C20                                                                     *)
(***************************************************************************)
\* The header begins with the magic and goes on to a version
MagicOk(header) ==
    Len(header) >= NIP_HEADER_LEN /\ \A i \in DOMAIN NIP_MAGIC : header[i] = NIP_MAGIC[i]

VersionOf(header) == header[7] * 256 + header[8]

\* C20: loading an index and getting an object look at the header first.
\* Bytes under a header of a lower or higher version than the current one are
\* refused for their version whether or not their payload would decode, bytes
\* whose magic is wrong are refused, and only bytes of the current version are
\* decoded; a fetch that comes to such bytes fails.
C20_HeaderFirst ==
    /\ [][(last'.op = "load" /\ last'.ret[1] = "ExistingIPFS") =>
             LET header == last'.ret[2].header IN
             /\ (MagicOk(header) /\ VersionOf(header) # NIP_PROTOCOL_VERSION)
                   => (last'.res = "InvalidVersion" /\ UNCHANGED <<refs, objects>>)
             /\ ~MagicOk(header) => (last'.res # "Ok" /\ UNCHANGED <<refs, objects>>)
             /\ last'.res = "Ok" =>
                   /\ MagicOk(header) /\ VersionOf(header) = NIP_PROTOCOL_VERSION
                   /\ refs' = last'.ret[2].payload.refs
                   /\ objects' = last'.ret[2].payload.objects]_vars
    /\ [](\A bytes \in ipfs.obj :
             \E got \in {ipfs_get(ipfs, Link(bytes))} :
                /\ (MagicOk(bytes.header)
                       /\ VersionOf(bytes.header) # NIP_PROTOCOL_VERSION)
                      => got = <<FALSE, "version">>
                /\ ~MagicOk(bytes.header) => ~got[1]
                /\ got[1] => /\ MagicOk(bytes.header)
                             /\ VersionOf(bytes.header) = NIP_PROTOCOL_VERSION
                             /\ got[2] = bytes.payload)
    /\ [][(/\ last'.op = "fetch"
           /\ last'.hash \in Linked \ odb[last'.repo]
           /\ \/ ~MagicOk(objects[last'.hash][2].header)
              \/ VersionOf(objects[last'.hash][2].header) # NIP_PROTOCOL_VERSION)
          => (last'.res = "Err" /\ odb' = odb /\ localrefs' = localrefs)]_vars

\* An index under a header of the next version, whose payload would decode,
\* was refused for its version
C20_Witness ==
    /\ last.op = "load" /\ last.res = "InvalidVersion"
    /\ last.ret[1] = "ExistingIPFS"
    /\ VersionOf(last.ret[2].header) = NIP_PROTOCOL_VERSION + 1
    /\ last.ret[2].payload # Garbage
    /\ objects = EmptyMap

(***************************************************************************)
(* C21                                                                     *)
(***************************************************************************)
Migrated == last.op \in {"migrate_index", "migrate_object"}

\* The data decodes at the type the call reads it at
Decodes ==
    IF last.want = "index" THEN is_index(last.data)
    ELSE IF last.version = 1 THEN is_object_v1(last.data)
    ELSE is_object_v2(last.data)

\* C21: migrate_index and migrate_object dispatch on every 16-bit version:
\* 0 fails with ZeroVersion, a version above the current one fails with
\* TooNew of that version, the current version returns the decoded data
\* unchanged, a version from 1 to current-1 runs the upgrade (it fails only
\* for the data, and an upgraded object carries the git hash), and no call
\* ends in the arm marked unreachable.
C21_Dispatch ==
    Migrated =>
      /\ last.version \in U16
      /\ ~last.out[1] => last.out[2] # Unreachable
      /\ last.version = 0 => ~last.out[1] /\ last.out[2] = ZeroVersion
      /\ last.version > NIP_PROTOCOL_VERSION =>
            ~last.out[1] /\ last.out[2] = TooNew(last.version)
      /\ last.version = NIP_PROTOCOL_VERSION =>
            IF Decodes THEN last.out[1] /\ last.out[2] = last.data
            ELSE ~last.out[1] /\ last.out[2] = DecodeError
      /\ last.version \in 1..(NIP_PROTOCOL_VERSION - 1) =>
            /\ ~Decodes => ~last.out[1] /\ last.out[2] = DecodeError
            /\ ~last.out[1] => last.out[2] \notin {ZeroVersion, TooNew(last.version)}
            /\ last.out[1] /\ last.want = "object" =>
                  is_object_v2(last.out[2]) /\ last.out[2].git_hash = last.git_hash
            /\ last.out[1] /\ last.want = "index" =>
                  \A h \in DOMAIN last.out[2].objects :
                    last.out[2].objects[h] # SUBMODULE_TIP_MARKER =>
                      is_object_v2(last.out[2].objects[h][2].payload)

\* The highest version is refused as too new, by both functions
C21_Witness ==
    /\ last.op = "migrate_index"
    /\ last.version = 65535
    /\ last.out[2] = TooNew(65535)

(***************************************************************************)
(* C22                                                                     *)
(***************************************************************************)
\* A version-1 index was migrated
MigratedV1 ==
    last.op = "migrate_index" /\ last.version = 1 /\ last.out[1]

Markers(objs) == {h \in DOMAIN objs : objs[h] = SUBMODULE_TIP_MARKER}

\* The current-version object stored under link is the version-1 object
\* stored under old, with the git hash h
ReEncoded(link, old, h) ==
    /\ IsLink(link)
    /\ link[2] \in ipfs.obj
    /\ parse_nip_header(link[2].header) = <<TRUE, NIP_PROTOCOL_VERSION>>
    /\ link[2].payload.git_hash = h
    /\ link[2].payload.raw_data_ipfs_hash = old[2].payload.raw_data_ipfs_hash
    /\ link[2].payload.metadata = old[2].payload.metadata

\* C22: migrating a version-1 index keeps refs, prev_idx_hash and the keys
\* of objects; an entry that is the submodule marker stays the marker and
\* is neither downloaded nor uploaded; every other entry becomes the link
\* of its object re-encoded in the current version, and exactly these
\* entries are downloaded and uploaded.
C22_MigrateIndex ==
    MigratedV1 =>
      /\ last.out[2].refs = last.data.refs
      /\ last.out[2].prev_idx_hash = last.data.prev_idx_hash
      /\ DOMAIN last.out[2].objects = DOMAIN last.data.objects
      /\ Markers(last.out[2].objects) = Markers(last.data.objects)
      /\ Range(last.adds) = DOMAIN last.data.objects \ Markers(last.data.objects)
      /\ Range(last.cats) =
            {last.data.objects[h] : h \in DOMAIN last.data.objects \ Markers(last.data.objects)}
      /\ \A h \in DOMAIN last.data.objects \ Markers(last.data.objects) :
            ReEncoded(last.out[2].objects[h], last.data.objects[h], h)

\* An index with a submodule tip and two objects was migrated
C22_Witness ==
    /\ MigratedV1
    /\ Markers(last.data.objects) = {7}
    /\ {4, 5} \subseteq DOMAIN last.data.objects
    /\ last.out[2].objects[5] # last.data.objects[5]

(***************************************************************************)
(* C23                                                                     *)
(***************************************************************************)
\* A version-1 object went through to_v2
UpgradedV1 ==
    last.op = "migrate_object" /\ last.version = 1 /\ last.out[1]

is_hash(h) == Len(h) = IPFS_HASH_LEN /\ "/" \notin Range(h)

Placeholder(value) == value[1] \in {"NewIPFS", "NewIPNS"}

\* The rendered text of a value was parsed
RoundTrip == last.op = "from_str" /\ last.want = "render"

\* C24: for NewIPFS, NewIPNS and for ExistingIPFS(hash) and
\* ExistingIPNS(hash) with a hash of the fixed length, parsing the rendered
\* text succeeds and yields the value that was rendered.
C24_AddressRoundTrip ==
    RoundTrip /\ (Placeholder(last.value) \/ is_hash(last.value[2])) =>
      last.parsed[1] /\ last.parsed[2] = last.value

\* An existing IPNS remote and a placeholder came back from their text
C24_Witness ==
    /\ RoundTrip
    /\ last.value = ExistingIPNS(Fill("Q", IPFS_HASH_LEN))
    /\ last.text = IPNS_PREFIX \o Fill("Q", IPFS_HASH_LEN)
    /\ last.parsed[2] = last.value

(***************************************************************************)
(* C25                                                                     *)
(***************************************************************************)
\* A string of the caller was parsed
ParsedText == last.op = "from_str" /\ last.want = "parse"

HasScheme(s) == starts_with(s, IPFS_PREFIX) \/ starts_with(s, IPNS_PREFIX)

\* /<scheme>/<hash> and nothing after the hash, or one of the two tokens
WellFormed(s) ==
    \/ s \in {NEW_IPFS, NEW_IPNS}
    \/ HasScheme(s) /\ is_hash(SubSeq(s, Len(IPFS_PREFIX) + 1, Len(s)))

\* C25: from_str accepts exactly the two placeholder tokens and the strings
\* /ipfs/<hash> and /ipns/<hash> with a hash of the fixed length; every
\* other string is rejected, also one with characters or path segments
\* after the hash, and a string without scheme prefix is rejected with
\* InvalidLinkFormat of that string.
C25_AcceptsExactly ==
    ParsedText =>
      /\ last.parsed[1] <=> WellFormed(last.text)
      /\ ~HasScheme(last.text) /\ ~WellFormed(last.text) =>
            ~last.parsed[1] /\ last.parsed[2] = InvalidLinkFormat(last.text)

(***************************************************************************)
(* C26                                                                     *)
(***************************************************************************)
\* The hash part of a string with a scheme prefix: what follows the prefix,
\* up to the next slash
HashPart(s) ==
    LET rest == SubSeq(s, Len(IPFS_PREFIX) + 1, Len(s))
        stops == {i \in 1..Len(rest) : rest[i] = "/"}
    IN  IF stops = {} THEN rest ELSE SubSeq(rest, 1, Min(stops) - 1)

\* C26: a string with the prefix /ipfs/ or /ipns/ whose hash part is not
\* IPFS_HASH_LEN characters long is rejected with InvalidHashLength of the
\* length of the hash part, the prefix not counted, and IPFS_HASH_LEN.
C26_InvalidHashLength ==
    ParsedText /\ HasScheme(last.text) /\ Len(HashPart(last.text)) # IPFS_HASH_LEN =>
      /\ ~last.parsed[1]
      /\ last.parsed[2] = <<"InvalidHashLength", Len(HashPart(last.text)), IPFS_HASH_LEN>>

\* A hash of ten characters after /ipfs/ was refused as ten characters long
C26_Witness ==
    /\ ParsedText
    /\ last.text = IPFS_PREFIX \o Fill("Q", 10)
    /\ last.parsed[2] = <<"InvalidHashLength", 10, 46>>

(***************************************************************************)
(* C27                                                                     *)
(***************************************************************************)
\* get_hash was called on last.value
AskedHash == last.op = "get_hash"

\* get_hash was called on what from_str returned for a string of the caller
ParsedHash == last.op = "get_hash" /\ last.want = "parse"

\* The text the scheme of an existing remote starts with
SchemeOf(value) == IF value[1] = "ExistingIPFS" THEN IPFS_PREFIX ELSE IPNS_PREFIX

\* C27: get_hash is None for NewIPFS and NewIPNS and the whole address,
\* scheme and hash, for an Existing variant; for every string s of the form
\* /ipfs/<hash> or /ipns/<hash> with a hash of the fixed length, get_hash of
\* the parsed s is s.
C27_GetHash ==
    /\ AskedHash /\ Placeholder(last.value) => last.got = None
    /\ AskedHash /\ ~Placeholder(last.value) =>
          last.got = <<"Some", SchemeOf(last.value) \o last.value[2]>>
    /\ ParsedHash /\ WellFormed(last.text) /\ HasScheme(last.text) =>
          last.got = <<"Some", last.text>>

\* The address of an existing IPFS remote came back from get_hash
C27_Witness ==
    /\ ParsedHash
    /\ last.text = IPFS_PREFIX \o Fill("m", IPFS_HASH_LEN)
    /\ last.got = <<"Some", last.text>>

(***************************************************************************)
(* C28                                                                     *)
(***************************************************************************)
\* The least set holding S and closed under the children that are in the
\* object database and are no key of the index
RECURSIVE PathClosure(_, _, _)
PathClosure(keys, db, S) ==
    LET T == S \cup {c \in UNION {Children(h) : h \in S} : c \in db /\ c \notin keys}
    IN  IF T = S THEN S ELSE PathClosure(keys, db, T)

\* The objects a path from the root leads to on which no object, the root
\* included, is a key of the index
PathReach(keys, db, root) ==
    IF root \in keys THEN {} ELSE PathClosure(keys, db, {root})

\* C28: for every index and object database reached and every root in the
\* database, the object set of a push walk that succeeds is the set of
\* objects reached from the root along commit->tree, commit->parent,
\* tag->target and tree->entry edges (submodule entries left out) by paths
\* that meet no key of objects; it holds no key of objects, and the
\* submodule set is the set of commit-kind entries of the trees in it.
C28_PushSet ==
    \A r \in Repos : \A root \in odb[r] :
        LET walk == enumerate_for_push(objects, odb[r], root, PushStart)
        IN  ~walk.err =>
              /\ walk.push = PathReach(DOMAIN objects, odb[r], root)
              /\ walk.push \cap DOMAIN objects = {}
              /\ walk.subs = SubmoduleTips(walk.push)

\* An index that holds a commit but not the tree of that commit, and a root
\* above both whose walk stops at the commit and finds submodule tips
C28_Witness ==
    /\ 3 \in DOMAIN objects /\ 2 \notin DOMAIN objects
    /\ last.op = "push"
    /\ LET walk == enumerate_for_push(objects, odb["A"], 5, PushStart)
       IN  /\ ~walk.err
           /\ {4, 5} \subseteq walk.push
           /\ 2 \in Reachable(5) \ walk.push
           /\ walk.subs = {3, 7}

(***************************************************************************)
(* C29                                                                     *)
(***************************************************************************)
\* The object is in the content store, raw data and NIPObject, and has an
\* entry in the objects table
Pushed(h, table, store) ==
    /\ h \in DOMAIN table
    /\ git[h].data \in store.raw
    /\ Encode(from_git(h)) \in store.obj

\* C29: push_ref_from_str writes the ref last.  A call with a source ref
\* that changes refs, or succeeds, has uploaded and recorded every object
\* of its push set and recorded every submodule tip, and has set
\* refs[ref_dst] to the object pushed; a call that fails, in the walk or
\* in an upload, leaves refs as it was.
C29_RefWrittenLast ==
    [][last'.op = "push" =>
         /\ refs' # refs \/ last'.res = "Ok" =>
               /\ last'.res = "Ok"
               /\ \A h \in last'.objs : Pushed(h, objects', ipfs')
               /\ \A h \in last'.subs : h \in DOMAIN objects'
               /\ refs' = Insert(refs, last'.dst, last'.obj)
         /\ last'.res # "Ok" => refs' = refs]_vars

\* A push failed after some of its uploads: part of its push set is in
\* objects, and the ref it was to write is not in refs
C29_Witness ==
    /\ last.op = "push" /\ last.net = "upload" /\ last.res = "Err"
    /\ last.objs \cap DOMAIN objects # {}
    /\ last.objs \ DOMAIN objects # {}
    /\ last.dst \notin DOMAIN refs

(***************************************************************************)
(* C30                                                                     *)
(***************************************************************************)
\* The object the index records for oid was downloaded and written to the
\* object database db, and what was written hashes to oid
Verified(oid, db) ==
    /\ oid \in Linked
    /\ ipfs_get(ipfs, objects[oid])[1]
    /\ write_raw_data(ipfs, ipfs_get(ipfs, objects[oid])[2]) = <<TRUE, oid>>
    /\ oid \in db

\* C30: fetch_to_ref_from_str writes the local ref last.  A call that
\* creates or changes a local ref has succeeded, has downloaded, written
\* and verified every object of its fetch set, and has set only the ref it
\* was given, to the hash it was given; a call that fails, in the walk, in
\* a download or in a verification, leaves the local refs as they were.
C30_LocalRefWrittenLast ==
    [][last'.op = "fetch" =>
         /\ localrefs' # localrefs =>
               /\ last'.res = "Ok"
               /\ \A oid \in last'.oids : Verified(oid, odb'[last'.repo])
               /\ localrefs' = [localrefs EXCEPT ![last'.repo] =
                                   Insert(@, last'.dst, last'.hash)]
         /\ last'.res = "Ok" =>
               \A oid \in last'.oids : Verified(oid, odb'[last'.repo])
         /\ last'.res # "Ok" => localrefs' = localrefs]_vars

\* A fetch stopped at a download that failed after it had written some
\* objects, and the repository has no local ref
C30_Witness ==
    /\ last.op = "fetch" /\ last.net = "download" /\ last.res = "Err"
    /\ last.repo = "B"
    /\ last.oids \cap odb["B"] # {}
    /\ last.oids \ odb["B"] # {}
    /\ localrefs["B"] = EmptyMap

(***************************************************************************)
(* C32                                                                     *)
(***************************************************************************)
\* C32: after every push of a source ref that succeeds, whatever pushes came
\* before, the hash in refs[ref_dst] is a key of objects whose value is a
\* content link and not the submodule marker.
C32_TipLinked ==
    last.op = "push" /\ last.res = "Ok" =>
      /\ last.dst \in DOMAIN refs
      /\ refs[last.dst] \in DOMAIN objects
      /\ IsLink(objects[refs[last.dst]])

(* C33 *)
\* the staleness check of the push that last' records, as it came out on the
\* index and the repository the push started from
StaleCheck ==
    staleness_check(refs, objects, ipfs, odb[last'.repo], last'.dst, last'.force)

\* the push that last' records got as far as its staleness check and failed
\* it: a request of the check failed, the walk of the check failed, or objects
\* were missing (FetchFirst)
FailedCheck ==
    /\ last'.op = "push" /\ ~last'.force
    /\ last'.obj # NoHash
    /\ \/ last'.net = "check"
       \/ StaleCheck.res \in {"err", "fetch_first"}

\* C33: a non-forced push that fails its staleness check (FetchFirst, or an
\* error of the fetch walk used for the check) returns an error and leaves the
\* index as it was (refs, objects and prev_idx_hash), with nothing uploaded
\* to the content store.
C33_FailedCheckTouchesNothing ==
    [][FailedCheck =>
         /\ last'.res \in {"FetchFirst", "Err"}
         /\ refs' = refs
         /\ objects' = objects
         /\ prev_idx_hash' = prev_idx_hash
         /\ ipfs' = ipfs]_vars

\* a push was refused with FetchFirst although the index lists the ref at
\* another object than the one pushed
C33_Witness ==
    /\ last.op = "push" /\ ~last.force /\ last.res = "FetchFirst"
    /\ last.dst \in DOMAIN refs
    /\ refs[last.dst] # last.obj

(* C35 *)
\* C35: NIPIndex::from_slice of a byte string of length 0 to 7, shorter than
\* the header, ends in an error value returned to the caller, as
\* parse_nip_header does on such an input, and not in an abort.
C35_ShortInputIsError ==
    last.op = "decode" /\ Len(last.header) < NIP_HEADER_LEN =>
      /\ ~last.parsed[1]
      /\ last.parsed[2] # "panic"

(* C34 *)
\* the hashes the metadata of an indexed object names
RefsOf(h) == MetadataHashes(objects[h][2].payload.metadata)

\* C34: both walks terminate on every finite input: enumerate_for_push on
\* every object graph, and enumerate_for_fetch on every index, also when the
\* metadata of the indexed objects forms a cycle, because a hash is added to
\* the dedup set before its references are visited.
C34_WalksTerminate == <>(last.op = "walked")

\* a fetch walk came to its end over two counted objects that name each other
\* (or one that names itself)
C34_Witness ==
    /\ last.op = "walked" /\ last.walk = "fetch" /\ ~last.err
    /\ \E h \in last.state, k \in last.state : k \in RefsOf(h) /\ h \in RefsOf(k)

(* C31 *)
\* both callers loaded the same published index, each pushed a ref of its
\* own without force, and each published with success
RacedToTheEnd ==
    /\ \A c \in Repos : last.pc[c] = "done"
    /\ last.loaded["A"] = last.loaded["B"]
    /\ last.pushed["A"][1] # last.pushed["B"][1]

\* the index the name resolves to
UnderTheName == from_nip_remote(ExistingIPNS("self"), ipfs)[2]

\* the index binds the ref the caller pushed to the hash the caller pushed
HasPushOf(index, c) ==
    /\ last.pushed[c][1] \in DOMAIN index.refs
    /\ index.refs[last.pushed[c][1]] = last.pushed[c][2]

\* C31: there is no remote locking and the staleness check is advisory: when
\* two callers load the same index published under a name, each pass the
\* check of a push without force, each push a different ref and each publish,
\* both publishes succeed and the index the name resolves to in the end is the
\* one of the caller that published last, without the ref pushed by the
\* caller that published first.
C31_FirstPushLost ==
    RacedToTheEnd =>
      /\ UnderTheName.refs = refs[last.order[2]]
      /\ HasPushOf(UnderTheName, last.order[2])
      /\ ~HasPushOf(UnderTheName, last.order[1])

\* both callers pushed onto a ref and are done: one onto the ref the loaded
\* index had, where the staleness check ran, and it published first
C31_Witness ==
    /\ RacedToTheEnd
    /\ last.pushed[last.order[1]][1] = Master

====
